---- MODULE Spec2Model ----
(***************************************************************************)
(* A model of the agent orchestration engine of agentFramework: the        *)
(* tool-calling control loop Agent._run, its callers chat / _invoke /      *)
(* structuredAnswer, the tool execution boundary _execute_tool and the     *)
(* delegation of a task to a sub-agent (as_subagent).                      *)
(*                                                                         *)
(* The Python call stack is the variable stack: one frame per active turn  *)
(* (a chain of tail calls of _run).  A turn started by chat works on the   *)
(* agent's own history list (the list object is passed to _run and         *)
(* mutated in place); a turn started by structuredAnswer works on a copy.  *)
(* The backend (LLM._inferModel) is outside the engine: its answer to a    *)
(* generate call is drawn from a bounded menu.                             *)
(***************************************************************************)
EXTENDS Integers, Sequences, FiniteSets, TLC

VARIABLES
    history,            \* Agent.history, per agent
    tool_map,           \* Agent.tool_map, per agent: an insertion-ordered dict
    sub_agents,         \* Agent.sub_agents, per agent: the sub-agent wrappers
    hook_map,           \* Agent.hook_map, per agent: the registered hooks
    registrations,      \* the add_tool_hook calls made so far, with their removers
    heard,              \* the invocations of delegation listeners, in order
    max_iterations,     \* Agent.max_iterations, per agent
    default_tool_mode,  \* Agent.default_tool_mode, per agent
    end_tool_mode,      \* Agent.llm.parameters.end_tool_mode, per agent
    stack,              \* the active turns, innermost last
    outcome,            \* how the last top-level call ended
    trace,              \* what happened so far, in order (observation only)
    numGen,             \* LLM.generate calls issued so far
    numTurns,           \* turns started so far
    numTop,             \* top-level calls started so far
    listed,             \* the get_all_subagents calls made so far, with results
    now,                \* the clock, in ticks
    last_request_time,  \* LLM._last_request_time, shared by all backends
    worker,             \* per worker: where it is inside LLM._infer
    io,                 \* what the backend wrapper did so far (observation only)
    budget,             \* how often the clock ticked and the backend failed
    allow_poking,       \* per agent: Agent.allow_poking
    decoded             \* the texts given to ToolCall as args, with the outcome

vars == <<history, tool_map, sub_agents, hook_map, registrations, heard,
          max_iterations, default_tool_mode, end_tool_mode, stack, outcome,
          trace, numGen, numTurns, numTop, listed, now, last_request_time,
          worker, io, budget, allow_poking, decoded>>

\* what only the steps made for them touch: the switch of poke and the
\* decoder of tool-call arguments
apart == <<allow_poking, decoded>>

\* the variables of the agents
agentVars == <<history, tool_map, sub_agents, hook_map, registrations, heard,
               max_iterations, default_tool_mode, end_tool_mode, stack, outcome,
               trace, numGen, numTurns, numTop>>

\* the variables of the backend wrapper
inferVars == <<now, last_request_time, worker, io, budget>>

\* what no step of a turn and no registration of a hook touches
elsewhere == <<listed, inferVars>>

config == <<tool_map, sub_agents, hook_map, registrations, max_iterations,
            default_tool_mode, end_tool_mode>>

(***************************************************************************)
(* Bounds of the exploration.                                              *)
(***************************************************************************)
MaxIter == 2
MaxGen == 3
MaxTop == 1
MaxRegs == 3
MaxEdges == 3
MaxListed == 2
Resolution == 2
MaxGenerate == 1
MaxFailures == 1
MaxTicks == 1
MaxDecoded == 1
MaxCut == 40
\* the times a caller invokes one remover
MaxRemoves == 2

\* one attempt more
more_retries == 3 + 3

\* LLM._infer: max_retries
max_retries == 5

Agents == {"A", "Helper"}

AUTO == "auto"
FORCE == "force"
NONE == "none"

(***************************************************************************)
(* Python values that travel through tool arguments and results.           *)
(***************************************************************************)
IntV(i) == [t |-> "int", i |-> i, s |-> ""]
StrV(s) == [t |-> "str", i |-> 0, s |-> s]
NoneV == [t |-> "none", i |-> 0, s |-> ""]
ObjV(count) == [t |-> "obj", i |-> count, s |-> "count"]

(***************************************************************************)
(* Protocol and data model (llm.py).                                       *)
(***************************************************************************)
ToolCall(id, name, args) == [id |-> id, name |-> name, args |-> args]

ExecutionResult(success, output, error) ==
    [success |-> success, output |-> output, error |-> error]

ToolResult(id, name, result) == [id |-> id, name |-> name, result |-> result]

TextMessage(role, text) == [type |-> "text", role |-> role, text |-> text]

ToolMessage(role, tool_calls, tool_results) ==
    [type |-> "tool", role |-> role,
     tool_calls |-> tool_calls, tool_results |-> tool_results]

\* ToolMessage.get(name) is not None
HasResult(msg, name) ==
    \E i \in 1..Len(msg.tool_results) : msg.tool_results[i].name = name

\* ToolMessage.get(name): the first result under that name
GetResult(msg, name) ==
    LET i == CHOOSE j \in 1..Len(msg.tool_results) :
                 /\ msg.tool_results[j].name = name
                 /\ \A k \in 1..(j - 1) : msg.tool_results[k].name # name
    IN  msg.tool_results[i].result

(***************************************************************************)
(* Tools (tool.py) and the tool registry, a dict kept in insertion order.  *)
(***************************************************************************)
Tool(name, fn, agent) == [name |-> name, fn |-> fn, agent |-> agent]

AddTool == Tool("add", "add", "")

\* Agent.as_subagent: the wrapper is named after the agent and runs its chat
SubAgentTool(a) == Tool(a, "deligate", a)

\* Agent.structuredAnswer: the synthetic tool of the structured answer
SetOutputTool == Tool("set_output", "set_output", "")

\* Agent._run: the synthetic escape tool
EndToolModeTool == Tool("end_tool_mode", "end_tool_mode", "")

Keys(m) == [i \in 1..Len(m) |-> m[i].name]

Has(m, name) == \E i \in 1..Len(m) : m[i].name = name

Lookup(m, name) == m[CHOOSE i \in 1..Len(m) : m[i].name = name]

\* m[tool.name] = tool
Put(m, tool) ==
    IF Has(m, tool.name)
    THEN [i \in 1..Len(m) |-> IF m[i].name = tool.name THEN tool ELSE m[i]]
    ELSE Append(m, tool)

RECURSIVE Join(_, _)
\* sep.join(names)
Join(names, sep) ==
    IF Len(names) = 0 THEN ""
    ELSE IF Len(names) = 1 THEN names[1]
    ELSE names[1] \o sep \o Join(Tail(names), sep)

(***************************************************************************)
(* What running a tool's callable does: it returns a value, raises, or     *)
(* (the wrapper of a sub-agent) runs the chat of another agent.            *)
(***************************************************************************)
Returns(v) == [kind |-> "value", v |-> v, err |-> "", agent |-> "", task |-> ""]

Raises(err) == [kind |-> "raise", v |-> NoneV, err |-> err, agent |-> "", task |-> ""]

Chats(a, task) == [kind |-> "chat", v |-> NoneV, err |-> "", agent |-> a, task |-> task]

\* the partners an actor is linked with, in the order of partnerMap
Partners == <<"Helper", "Worker">>

\* Agent.name: Deputy is another agent that was given the name Helper
agent_name(a) == IF a = "Deputy" THEN "Helper" ELSE a

\* the keys of a partnerMap, in insertion order
Users(partnerMap) == [n \in 1..Len(partnerMap) |-> partnerMap[n].key]

\* user in partnerMap
KnownUser(partnerMap, user) == \E n \in 1..Len(partnerMap) : partnerMap[n].key = user

\* partnerMap[user]
PartnerOf(partnerMap, user) ==
    partnerMap[CHOOSE n \in 1..Len(partnerMap) : partnerMap[n].key = user].value

\* link_agents.interact, line 21: str() of the KeyError, which is the repr
\* of its message
UserNotFound(partnerMap, user) ==
    "'User " \o "\"" \o user \o "\"" \o " not found, available users: "
        \o Join(Users(partnerMap), ", ") \o "'"

\* the tool made by link_agents is interact (user, request) or, for a single
\* partner, single_interact (request)
IsInteract(tool) == tool.fn \in {"interact", "single_interact"}

Parameters(tool) ==
    IF tool.fn = "single_interact" THEN {"request"} ELSE {"user", "request"}

\* the user that interact is called for: single_interact passes the first
\* key of partnerMap (line 35)
Addressed(tool, args) ==
    IF tool.fn = "single_interact" THEN tool.partnerMap[1].key ELSE args.user.s

\* an interaction tool that talks to the first partner when it does not
\* know the user
InteractLenient(tool, args) ==
    IF DOMAIN args # Parameters(tool)
    THEN Raises("interact() got unexpected or missing arguments")
    ELSE IF KnownUser(tool.partnerMap, Addressed(tool, args))
         THEN Chats(PartnerOf(tool.partnerMap, Addressed(tool, args)), args.request.s)
         ELSE Chats(tool.partnerMap[1].value, args.request.s)

\* link_agents.interact, lines 18-26, and single_interact, line 35: up to
\* the chat of the partner
Interact(tool, args) ==
    IF DOMAIN args # Parameters(tool)
    THEN Raises("interact() got unexpected or missing arguments")
    ELSE IF KnownUser(tool.partnerMap, Addressed(tool, args))
         THEN Chats(PartnerOf(tool.partnerMap, Addressed(tool, args)), args.request.s)
         ELSE Raises(UserNotFound(tool.partnerMap, Addressed(tool, args)))

\* tool.function(**args)
CallFunction(tool, args) ==
    CASE tool.fn = "add" ->
            IF DOMAIN args # {"a", "b"}
            THEN Raises("add() got unexpected or missing arguments")
            ELSE IF args.a.t = "int" /\ args.b.t = "int"
                 THEN Returns(IntV(args.a.i + args.b.i))
                 ELSE Raises("unsupported operand type(s) for +")
      [] tool.fn = "deligate" ->
            IF DOMAIN args # {"task"}
            THEN Raises("deligate() got unexpected or missing arguments")
            ELSE IF args.task.t = "str"
                 THEN Chats(tool.agent, args.task.s)
                 ELSE Raises("1 validation error for TextMessage")
      [] tool.fn = "set_output" ->
            IF DOMAIN args = {"count"} /\ args.count.t = "int"
            THEN Returns(ObjV(args.count.i))
            ELSE Raises("1 validation error for Output")
      [] tool.fn = "end_tool_mode" ->
            IF DOMAIN args = {}
            THEN Returns(NoneV)
            ELSE Raises("<lambda>() got an unexpected keyword argument")
      [] IsInteract(tool) -> Interact(tool, args)
      [] tool.fn = "lookup" -> Returns(StrV("found"))

\* an unknown tool reported without its name and without the available names
ExecuteToolRawUnnamed(tool_call, tmap) ==
    IF ~Has(tmap, tool_call.name)
    THEN Raises("Tool not found")
    ELSE CallFunction(Lookup(tmap, tool_call.name), tool_call.args)

\* Agent._execute_tool_raw
ExecuteToolRaw(tool_call, tmap) ==
    IF ~Has(tmap, tool_call.name)
    THEN Raises("Tool '" \o tool_call.name \o "' not found, available tools: "
                \o Join(Keys(tmap), ", "))
    ELSE CallFunction(Lookup(tmap, tool_call.name), tool_call.args)

(***************************************************************************)
(* Hooks (Agent.add_tool_hook): hook_map[a] lists the registered hooks in  *)
(* registration order, each with the tool name it was registered for.  A   *)
(* hook that only listens returns None; a rewriting pre-hook returns a     *)
(* transformed call, a replacing post-hook a transformed result.           *)
(***************************************************************************)
Hook(tool, kind, fn) == [tool |-> tool, kind |-> kind, fn |-> fn]

SelectHooks(hooks, name) ==
    LET Test(h) == h.tool = name IN SelectSeq(hooks, Test)

RewrittenArgs == [a |-> IntV(1), b |-> IntV(1)]

\* ToolCall(name=..., args=...) made by a hook: the id is a new uuid4, which
\* no call of a response has
NewId(id) == id + 5

ReplacedResult == ExecutionResult(TRUE, StrV("replaced"), NoneV)

\* the callables registered as listeners by listen_to_all_deligations: every
\* attachment makes lambdas of its own
ListenerFns == <<"listener1", "listener2", "listener3", "listener4">>

IsListener(fn) == \E k \in 1..Len(ListenerFns) : ListenerFns[k] = fn

\* a listener whose return value is taken for a transformed call
PreReturnEcho(h, tool_call) ==
    CASE h.fn = "rewrite" -> ToolCall(NewId(tool_call.id), tool_call.name, RewrittenArgs)
      [] h.fn = "incr" ->
            IF "a" \in DOMAIN tool_call.args /\ tool_call.args.a.t = "int"
            THEN ToolCall(tool_call.id, tool_call.name,
                          [tool_call.args EXCEPT !.a = IntV(@.i + 1)])
            ELSE NoneV
      [] IsListener(h.fn) ->
            ToolCall(tool_call.id, tool_call.name, [task |-> StrV("heard")])
      [] OTHER -> NoneV

\* what a pre-hook returns for the call it is given (NoneV: nothing)
PreReturn(h, tool_call) ==
    CASE h.fn = "rewrite" -> ToolCall(NewId(tool_call.id), tool_call.name, RewrittenArgs)
      [] h.fn = "incr" ->
            IF "a" \in DOMAIN tool_call.args /\ tool_call.args.a.t = "int"
            THEN ToolCall(tool_call.id, tool_call.name,
                          [tool_call.args EXCEPT !.a = IntV(@.i + 1)])
            ELSE NoneV
      [] OTHER -> NoneV

\* what a post-hook returns for the call and the result it is given
PostReturn(h, tool_call, result) ==
    CASE h.fn = "replace" -> ReplacedResult
      [] h.fn = "bump" ->
            IF result.output.t = "int"
            THEN ExecutionResult(result.success, IntV(result.output.i + 1), result.error)
            ELSE IF result.output.t = "str"
            THEN ExecutionResult(result.success, StrV(result.output.s \o "!"), result.error)
            ELSE NoneV
      [] OTHER -> NoneV

\* pre-hooks that are each given the original call
RECURSIVE ApplyPreHooksUnchained(_, _)
ApplyPreHooksUnchained(hooks, tool_call) ==
    IF hooks = <<>> THEN tool_call
    ELSE LET h == hooks[Len(hooks)]
         IN  IF h.kind = "pre" /\ PreReturn(h, tool_call) # NoneV
             THEN PreReturn(h, tool_call)
             ELSE ApplyPreHooksUnchained(SubSeq(hooks, 1, Len(hooks) - 1), tool_call)

RECURSIVE ApplyPreHooks(_, _)
\* Agent._execute_tool, the loop over the pre-hooks
ApplyPreHooks(hooks, tool_call) ==
    IF hooks = <<>> THEN tool_call
    ELSE LET h == Head(hooks)
             potentialy_transformed ==
                 IF h.kind = "pre" THEN PreReturn(h, tool_call) ELSE NoneV
             transformed ==
                 IF potentialy_transformed # NoneV
                 THEN potentialy_transformed
                 ELSE tool_call
         IN  ApplyPreHooks(Tail(hooks), transformed)

RECURSIVE ApplyPostHooks(_, _, _)
\* Agent._execute_tool, the loop over the post-hooks
ApplyPostHooks(hooks, tool_call, result) ==
    IF hooks = <<>> THEN result
    ELSE LET h == Head(hooks)
             potentialy_transformed ==
                 IF h.kind = "post" THEN PostReturn(h, tool_call, result) ELSE NoneV
             transformed ==
                 IF potentialy_transformed # NoneV
                 THEN potentialy_transformed
                 ELSE result
         IN  ApplyPostHooks(Tail(hooks), tool_call, transformed)

RECURSIVE IntToStr(_)
\* str() of a non-negative integer
IntToStr(i) ==
    LET digit == <<"0", "1", "2", "3", "4", "5", "6", "7", "8", "9">>[(i % 10) + 1]
    IN  IF i < 10 THEN digit ELSE IntToStr(i \div 10) \o digit

\* ExecutionResult.toString
toString(result) ==
    IF result.success
    THEN CASE result.output.t = "none" -> ""
           [] result.output.t = "str" -> result.output.s
           [] result.output.t = "int" -> IntToStr(result.output.i)
           [] result.output.t = "obj" -> "count=" \o IntToStr(result.output.i)
    ELSE result.error.s

\* Agent.listen_to_all_deligations, the pre lambda: what the listener is told
HeardBefore(agent, h, tool_call) ==
    [when |-> "pre", from |-> agent, to |-> h.tool, id |-> tool_call.id,
     text |-> IF "task" \in DOMAIN tool_call.args
              THEN tool_call.args.task
              ELSE StrV("-- No Task --")]

\* Agent.listen_to_all_deligations, the post lambda
HeardAfter(agent, h, tool_call, result) ==
    [when |-> "post", from |-> h.tool, to |-> agent, id |-> tool_call.id,
     text |-> StrV(toString(result))]

\* listener invocations, with the number of events logged before them
At(entries, n) ==
    [k \in 1..Len(entries) |->
        [when |-> entries[k].when, from |-> entries[k].from, to |-> entries[k].to,
         id |-> entries[k].id, text |-> entries[k].text, at |-> n]]

RECURSIVE ListenBefore(_, _, _)
\* the listener invocations made by the loop over the pre-hooks
ListenBefore(agent, hooks, tool_call) ==
    IF hooks = <<>> THEN <<>>
    ELSE LET h == Head(hooks)
             rest == ListenBefore(agent, Tail(hooks),
                                  ApplyPreHooks(<<h>>, tool_call))
         IN  IF h.kind = "pre" /\ IsListener(h.fn)
             THEN <<HeardBefore(agent, h, tool_call)>> \o rest
             ELSE rest

RECURSIVE ListenAfter(_, _, _, _)
\* the listener invocations made by the loop over the post-hooks
ListenAfter(agent, hooks, tool_call, result) ==
    IF hooks = <<>> THEN <<>>
    ELSE LET h == Head(hooks)
             rest == ListenAfter(agent, Tail(hooks), tool_call,
                                 ApplyPostHooks(<<h>>, tool_call, result))
         IN  IF h.kind = "post" /\ IsListener(h.fn)
             THEN <<HeardAfter(agent, h, tool_call, result)>> \o rest
             ELSE rest

(***************************************************************************)
(* The call stack.  A frame is one turn: the parameters of the current     *)
(* _run activation and, while the calls of a response are executed, the    *)
(* locals of _execute_all_tools.                                           *)
(***************************************************************************)
NoCall == ToolCall(0, "", <<>>)

Frame(top, turn, agent, kind, iterations, mode, tmap, local) ==
    [top |-> top, turn |-> turn, agent |-> agent, kind |-> kind,
     iterations |-> iterations, tool_mode |-> mode, tool_map |-> tmap,
     active |-> tmap, next_tool_mode |-> mode,
     pc |-> "run", calls |-> <<>>, results |-> <<>>, cur |-> NoCall,
     local |-> local]

Top(stk) == stk[Len(stk)]

Pop(stk) == SubSeq(stk, 1, Len(stk) - 1)

SetTop(S, f) == [S EXCEPT !.stack = [@ EXCEPT ![Len(@)] = f]]

Log(S, e) == [S EXCEPT !.trace = Append(@, e)]

\* the list the turn works on: self.history (chat) or the copy (structuredAnswer)
Messages(S) ==
    LET f == Top(S.stack)
    IN  IF f.kind = "chat" THEN S.history[f.agent] ELSE f.local

\* a chat history that keeps no tool-result messages
AppendMessageCollapsing(S, msg) ==
    LET f == Top(S.stack)
    IN  IF f.kind # "chat"
        THEN SetTop(S, [f EXCEPT !.local = Append(@, msg)])
        ELSE IF msg.type = "tool" /\ msg.role = "user" THEN S
        ELSE [S EXCEPT !.history = [@ EXCEPT ![f.agent] = Append(@, msg)]]

\* messages.append(msg)
AppendMessage(S, msg) ==
    LET f == Top(S.stack)
    IN  IF f.kind = "chat"
        THEN [S EXCEPT !.history = [@ EXCEPT ![f.agent] = Append(@, msg)]]
        ELSE SetTop(S, [f EXCEPT !.local = Append(@, msg)])

\* the stop predicates of Agent._invoke and Agent.structuredAnswer
StopCriteria(f, msg) ==
    IF f.kind = "chat"
    THEN msg.type = "text"
    ELSE msg.type = "tool" /\ HasResult(msg, "set_output")

MaxIterationsError == "Agent reached max iterations while processing user input"

MaxRetriesError == "Max retries exceeded"

Idle == [status |-> "idle", value |-> NoneV, error |-> ""]

Returned(v) == [status |-> "returned", value |-> v, error |-> ""]

Raised(err) == [status |-> "raised", value |-> NoneV, error |-> err]

\* a loop that forgets to count the iteration
NextIterationUncounted(S) ==
    LET f == Top(S.stack)
    IN  SetTop(S, [f EXCEPT !.pc = "run",
                            !.tool_mode = f.next_tool_mode,
                            !.active = f.tool_map,
                            !.calls = <<>>, !.results = <<>>, !.cur = NoCall])

\* Agent._run, line 224: return self._run(iterations - 1, messages,
\* next_tool_mode, original_tool_map, stop_criteria)
NextIteration(S) ==
    LET f == Top(S.stack)
    IN  SetTop(S, [f EXCEPT !.pc = "run",
                            !.iterations = @ - 1,
                            !.tool_mode = f.next_tool_mode,
                            !.next_tool_mode = f.next_tool_mode,
                            !.active = f.tool_map,
                            !.calls = <<>>, !.results = <<>>, !.cur = NoCall])

\* a chat that returns the text of the first message of the list
TurnValueOfFirst(S) ==
    LET f == Top(S.stack)
        last == Messages(S)[Len(Messages(S))]
    IN  IF f.kind = "chat"
        THEN StrV(Messages(S)[1].text)
        ELSE GetResult(last, "set_output").output

\* Agent.chat / Agent.structuredAnswer: the value the finished turn returns
TurnValue(S) ==
    LET f == Top(S.stack)
        last == Messages(S)[Len(Messages(S))]
    IN  IF f.kind = "chat"
        THEN StrV(last.text)
        ELSE GetResult(last, "set_output").output

\* Agent._execute_tool, line 237: the callable returned output
Succeeded(output) == ExecutionResult(TRUE, output, NoneV)

\* a failure that carries its message as output too
FailedWithOutput(err) == ExecutionResult(FALSE, StrV(err), StrV(err))

\* Agent._execute_tool, lines 238-239: except Exception as e
Failed(err) == ExecutionResult(FALSE, NoneV, StrV(err))

\* a result filed under the id and name of the call the tool was run with
NewToolResultOfTransformed(tool_call, cur, result) ==
    ToolResult(cur.id, cur.name, result)

\* Agent._execute_all_tools: ToolResult(id=tool_call.id, name=tool_call.name,
\* result=...), tool_call being the call of the response and cur the call
\* the pre-hooks of _execute_tool made of it
NewToolResult(tool_call, cur, result) ==
    ToolResult(tool_call.id, tool_call.name, result)

\* Agent._run, line 218: the aggregated tool-result message
ResultsMessage(results) == ToolMessage("user", <<>>, results)

\* the callable that the turn f is running: the tool of the call in hand
Running_(f) == Lookup(f.active, f.cur.name)

\* link_agents.interact, lines 23-24 and 28-29: callback(from, to, text)
Callback(S, from, to, text) ==
    [S EXCEPT !.heard = Append(@, [when |-> "callback", from |-> from, to |-> to,
                                   id |-> 0, text |-> StrV(text),
                                   at |-> Len(S.trace)])]

\* the callable of f is about to run the chat of agent a on text
BeforeChat(S, f, a, text) ==
    IF IsInteract(Running_(f))
    THEN Callback(S, agent_name(f.agent), agent_name(a), text)
    ELSE S

\* the chat of agent a, run by the callable of f, returned response
AfterChat(S, f, a, response) ==
    IF IsInteract(Running_(f))
    THEN Callback(S, agent_name(a), agent_name(f.agent), response.s)
    ELSE S

\* what the callable of f returns once the chat it ran returned response:
\* deligate returns the response, interact f"{user}: {response}"
ChatResult(f, response) ==
    IF IsInteract(Running_(f))
    THEN StrV(Addressed(Running_(f), f.cur.args) \o ": " \o response.s)
    ELSE response

RECURSIVE ReturnFrom(_)
RECURSIVE RaiseFrom(_, _)
RECURSIVE Deliver(_, _)

\* Agent._execute_tool, from the result of the callable on, and
\* Agent._execute_all_tools / Agent._run once the last call has its result
Deliver(S, result) ==
    LET f == Top(S.stack)
        tool_call == f.calls[Len(f.results) + 1]
        hooks == SelectHooks(hook_map[f.agent], tool_call.name)
        final == ApplyPostHooks(hooks, f.cur, result)
        results == Append(f.results, NewToolResult(tool_call, f.cur, final))
        S0 == [S EXCEPT !.heard = @ \o At(ListenAfter(f.agent, hooks, f.cur, result),
                                           Len(S.trace))]
        S1 == Log(SetTop(S0, [f EXCEPT !.results = results, !.cur = NoCall]),
                  [ev |-> "exec", top |-> f.top, turn |-> f.turn, agent |-> f.agent,
                   call |-> tool_call, cur |-> f.cur,
                   tools |-> Keys(f.active), map |-> f.active,
                   registered |-> hooks, raw |-> result, result |-> final])
        msg == ResultsMessage(results)
        S2 == AppendMessage(S1, msg)
    IN  IF Len(results) < Len(f.calls) THEN S1
        ELSE IF StopCriteria(f, msg) THEN ReturnFrom(S2)
        ELSE NextIteration(S2)

\* the turn on top of the stack returns to its caller
ReturnFrom(S) ==
    LET f == Top(S.stack)
        v == TurnValue(S)
        S1 == Log([S EXCEPT !.stack = Pop(@)],
                  [ev |-> "end", top |-> f.top, turn |-> f.turn, agent |-> f.agent,
                   how |-> "returned", value |-> v, error |-> ""])
    IN  IF S1.stack = <<>>
        THEN [S1 EXCEPT !.outcome = Returned(v)]
        ELSE Deliver(AfterChat(S1, Top(S1.stack), f.agent, v),
                     Succeeded(ChatResult(Top(S1.stack), v)))

\* the turn on top of the stack raises err; the caller, if there is one, is
\* inside the try block of Agent._execute_tool (except Exception)
RaiseFrom(S, err) ==
    LET f == Top(S.stack)
        S1 == Log([S EXCEPT !.stack = Pop(@)],
                  [ev |-> "end", top |-> f.top, turn |-> f.turn, agent |-> f.agent,
                   how |-> "raised", value |-> NoneV, error |-> err])
    IN  IF S1.stack = <<>>
        THEN [S1 EXCEPT !.outcome = Raised(err)]
        ELSE Deliver(S1, Failed(err))

(***************************************************************************)
(* Starting a turn.                                                        *)
(***************************************************************************)
\* a delegation that also records the task in the history of the caller
StartChatShared(S, a, user_input, mode, turn) ==
    LET tm == IF mode = "default" THEN default_tool_mode[a] ELSE mode
        message == TextMessage("user", user_input)
        f == Frame(IF S.stack = <<>> THEN numTop + 1 ELSE Top(S.stack).top,
                   turn, a, "chat", max_iterations[a], tm, tool_map[a], <<>>)
        callers == IF S.stack = <<>> THEN {} ELSE {Top(S.stack).agent}
    IN  Log([S EXCEPT !.history = [b \in Agents |->
                                      IF b = a \/ b \in callers
                                      THEN Append(@[b], message) ELSE @[b]],
                      !.stack = Append(@, f)],
            [ev |-> "start", top |-> f.top, turn |-> turn, agent |-> a, kind |-> "chat",
             requested |-> mode, iterations |-> f.iterations, tool_mode |-> tm,
             tools |-> Keys(f.tool_map),
             depth |-> Len(S.stack) + 1, input |-> user_input])

\* a chat that goes on with the budget and the tool mode that the last
\* backend call of the agent was made with
StartChatResumed(S, a, user_input, mode, turn) ==
    LET gens == {i \in 1..Len(S.trace) :
                    S.trace[i].ev = "gen" /\ S.trace[i].agent = a}
        left == S.trace[CHOOSE i \in gens : \A j \in gens : j <= i]
        tm == IF gens # {} THEN left.mode
              ELSE IF mode = "default" THEN default_tool_mode[a] ELSE mode
        message == TextMessage("user", user_input)
        f == Frame(IF S.stack = <<>> THEN numTop + 1 ELSE Top(S.stack).top,
                   turn, a, "chat",
                   IF gens # {} THEN left.iterations ELSE max_iterations[a],
                   tm, tool_map[a], <<>>)
    IN  Log([S EXCEPT !.history = [@ EXCEPT ![a] = Append(@, message)],
                      !.stack = Append(@, f)],
            [ev |-> "start", top |-> f.top, turn |-> turn, agent |-> a, kind |-> "chat",
             requested |-> mode, iterations |-> f.iterations, tool_mode |-> tm,
             tools |-> Keys(f.tool_map),
             depth |-> Len(S.stack) + 1, input |-> user_input])

\* a chat that starts from a history of its own
StartChatFresh(S, a, user_input, mode, turn) ==
    LET tm == IF mode = "default" THEN default_tool_mode[a] ELSE mode
        message == TextMessage("user", user_input)
        f == Frame(IF S.stack = <<>> THEN numTop + 1 ELSE Top(S.stack).top,
                   turn, a, "chat", max_iterations[a], tm, tool_map[a], <<>>)
    IN  Log([S EXCEPT !.history = [@ EXCEPT ![a] = <<message>>],
                      !.stack = Append(@, f)],
            [ev |-> "start", top |-> f.top, turn |-> turn, agent |-> a, kind |-> "chat",
             requested |-> mode, iterations |-> f.iterations, tool_mode |-> tm,
             tools |-> Keys(f.tool_map),
             depth |-> Len(S.stack) + 1, input |-> user_input])

\* Agent.chat and Agent._invoke up to the call of _run; mode "default" is
\* tool_mode=None
StartChat(S, a, user_input, mode, turn) ==
    LET tm == IF mode = "default" THEN default_tool_mode[a] ELSE mode
        message == TextMessage("user", user_input)
        f == Frame(IF S.stack = <<>> THEN numTop + 1 ELSE Top(S.stack).top,
                   turn, a, "chat", max_iterations[a], tm, tool_map[a], <<>>)
    IN  Log([S EXCEPT !.history = [@ EXCEPT ![a] = Append(@, message)],
                      !.stack = Append(@, f)],
            [ev |-> "start", top |-> f.top, turn |-> turn, agent |-> a, kind |-> "chat",
             requested |-> mode, iterations |-> f.iterations, tool_mode |-> tm,
             tools |-> Keys(f.tool_map),
             depth |-> Len(S.stack) + 1, input |-> user_input])

\* a structured answer with a budget of two iterations
StartStructuredTwice(S, a, user_input, turn) ==
    LET messages == Append(S.history[a], TextMessage("user", user_input))
        f == Frame(IF S.stack = <<>> THEN numTop + 1 ELSE Top(S.stack).top,
                   turn, a, "structured", 2, FORCE, <<SetOutputTool>>, messages)
    IN  Log([S EXCEPT !.stack = Append(@, f)],
            [ev |-> "start", top |-> f.top, turn |-> turn, agent |-> a, kind |-> "structured",
             requested |-> FORCE, iterations |-> 2, tool_mode |-> FORCE,
             tools |-> Keys(f.tool_map),
             depth |-> Len(S.stack) + 1, input |-> user_input])

\* a structured answer that works on the history itself, not on a copy
StartStructuredInPlace(S, a, user_input, turn) ==
    LET messages == Append(S.history[a], TextMessage("user", user_input))
        f == Frame(IF S.stack = <<>> THEN numTop + 1 ELSE Top(S.stack).top,
                   turn, a, "structured", 1, FORCE, <<SetOutputTool>>, messages)
    IN  Log([S EXCEPT !.history = [@ EXCEPT ![a] = messages],
                      !.stack = Append(@, f)],
            [ev |-> "start", top |-> f.top, turn |-> turn, agent |-> a, kind |-> "structured",
             requested |-> FORCE, iterations |-> 1, tool_mode |-> FORCE,
             tools |-> Keys(f.tool_map),
             depth |-> Len(S.stack) + 1, input |-> user_input])

\* Agent.structuredAnswer up to the call of _run
StartStructured(S, a, user_input, turn) ==
    LET messages == Append(S.history[a], TextMessage("user", user_input))
        f == Frame(IF S.stack = <<>> THEN numTop + 1 ELSE Top(S.stack).top,
                   turn, a, "structured", 1, FORCE, <<SetOutputTool>>, messages)
    IN  Log([S EXCEPT !.stack = Append(@, f)],
            [ev |-> "start", top |-> f.top, turn |-> turn, agent |-> a, kind |-> "structured",
             requested |-> FORCE, iterations |-> 1, tool_mode |-> FORCE,
             tools |-> Keys(f.tool_map),
             depth |-> Len(S.stack) + 1, input |-> user_input])

(***************************************************************************)
(* One activation of Agent._run, up to the execution of the first call.    *)
(***************************************************************************)
\* lines 199-201: the tool map of this call
ActiveToolMap(f) ==
    IF f.tool_mode = FORCE /\ end_tool_mode[f.agent]
    THEN Put(f.tool_map, EndToolModeTool)
    ELSE f.tool_map

\* a loop that forces a tool in every iteration after the first
NextToolModeForced(f) == FORCE

\* a loop that keeps forcing
NextToolModeKept(f) == f.tool_mode

\* lines 188-203: next_tool_mode
NextToolMode(f) ==
    IF f.tool_mode = FORCE /\ ~end_tool_mode[f.agent] THEN AUTO ELSE f.tool_mode

\* line 206: the tool_mode argument of self.llm.generate
GenerateToolMode(f) == f.tool_mode

\* line 208: any([tc.name == 'end_tool_mode' for tc in response.tool_calls])
IsEscape(response) ==
    /\ response.type = "tool"
    /\ \E i \in 1..Len(response.tool_calls) :
           response.tool_calls[i].name = "end_tool_mode"

\* a retry that goes on with the tool map the escape tool was put into
EscapeRetryWithTool(f) ==
    [f EXCEPT !.pc = "run", !.tool_mode = AUTO, !.next_tool_mode = AUTO,
              !.tool_map = ActiveToolMap(f), !.active = ActiveToolMap(f)]

\* a retry that goes on in the tool mode of the call
EscapeRetryForced(f) ==
    [f EXCEPT !.pc = "run", !.active = f.tool_map]

\* a retry that uses up an iteration
EscapeRetryCounted(f) ==
    [f EXCEPT !.pc = "run", !.tool_mode = AUTO, !.next_tool_mode = AUTO,
              !.active = f.tool_map, !.iterations = @ - 1]

\* line 210: return self._run(iterations, messages, ToolMode.AUTO,
\* original_tool_map, stop_criteria)
EscapeRetry(f) ==
    [f EXCEPT !.pc = "run", !.tool_mode = AUTO, !.next_tool_mode = AUTO,
              !.active = f.tool_map]

\* lines 207-224, given the response of the backend
HandleResponse(S, response) ==
    LET f == Top(S.stack)
        S0 == Log(S, [ev |-> "gen", top |-> f.top, turn |-> f.turn, agent |-> f.agent,
                      mode |-> f.tool_mode,
                      tool_mode |-> GenerateToolMode(f),
                      tools |-> Keys(ActiveToolMap(f)),
                      iterations |-> f.iterations, response |-> response])
        S1 == AppendMessage(S0, response)
        g == Top(S1.stack)
    IN  IF IsEscape(response) THEN SetTop(S0, EscapeRetry(f))
        ELSE IF StopCriteria(f, response) THEN ReturnFrom(S1)
        ELSE IF response.type = "tool" /\ response.tool_calls = <<>>
             THEN NextIteration(AppendMessage(
                      SetTop(S1, [g EXCEPT !.next_tool_mode = NextToolMode(f)]),
                      ResultsMessage(<<>>)))
        ELSE IF response.type = "tool"
             THEN SetTop(S1, [g EXCEPT !.pc = "exec",
                                       !.calls = response.tool_calls,
                                       !.results = <<>>,
                                       !.active = ActiveToolMap(f),
                                       !.next_tool_mode = NextToolMode(f)])
             ELSE NextIteration(SetTop(S1, [g EXCEPT !.next_tool_mode = NextToolMode(f)]))

\* LLM.generate raised
HandleFailure(S, err) ==
    LET f == Top(S.stack)
    IN  RaiseFrom(Log(S, [ev |-> "gen", top |-> f.top, turn |-> f.turn, agent |-> f.agent,
                          mode |-> f.tool_mode,
                          tool_mode |-> GenerateToolMode(f),
                          tools |-> Keys(ActiveToolMap(f)),
                          iterations |-> f.iterations,
                          response |-> [type |-> "error", error |-> err]]),
                  err)

(***************************************************************************)
(* The backend, an external collaborator: what it may answer.  The calls   *)
(* it emits are drawn from a menu that holds registered tools with good    *)
(* and bad arguments, a name no agent registers, the sub-agent wrappers    *)
(* and the escape tool, whether or not the tool was offered.               *)
(***************************************************************************)
NoArgs == <<>>

Call(name, args) == [name |-> name, args |-> args]

AddGood == Call("add", [a |-> IntV(2), b |-> IntV(3)])

AddBad == Call("add", [a |-> IntV(2)])

Unknown == Call("nope", NoArgs)

Escape == Call("end_tool_mode", NoArgs)

SetGood == Call("set_output", [count |-> IntV(7)])

SetBad == Call("set_output", [count |-> StrV("x")])

\* the tool-call responses the backend of the turn's agent may give
Responses(f) ==
    IF f.kind = "structured"
    THEN << <<SetGood>>, <<SetBad>>, <<SetBad, SetGood>>, <<AddGood, SetGood>>,
            <<AddGood>>, <<Escape>>, <<SetGood, Escape>> >>
    ELSE IF f.agent = "A"
    THEN << <<AddGood>>, <<Unknown, AddBad, AddGood>>,
            <<Call("Helper", [task |-> StrV("task")])>>,
            <<Escape>>, <<AddGood, Escape>> >>
    ELSE << <<Call("A", [task |-> StrV("back")])>>, <<Escape>> >>

\* the plain texts the backend of the turn's agent may give
Texts(f) == IF f.agent = "A" THEN {"5", "finished"} ELSE {"done"}

UserInputs == {"sum"}

\* the ids of the calls of one response (uuid4: unique)
CallId(i) == 10 * (numGen + 1) + i

ToolCallResponse(calls) ==
    ToolMessage("model",
                [i \in 1..Len(calls) |-> ToolCall(CallId(i), calls[i].name, calls[i].args)],
                <<>>)

(***************************************************************************)
(* The state and its actions.                                              *)
(***************************************************************************)
Now == [stack |-> stack, history |-> history, outcome |-> outcome, trace |-> trace,
        heard |-> heard]

Becomes(S) ==
    /\ stack' = S.stack
    /\ history' = S.history
    /\ outcome' = S.outcome
    /\ trace' = S.trace
    /\ heard' = S.heard

Running == [status |-> "running", value |-> NoneV, error |-> ""]

\* a caller invokes agent.chat(user_input, tool_mode)
Chat(a, user_input, mode) ==
    /\ stack = <<>>
    /\ numTop < MaxTop
    /\ Becomes(StartChat([Now EXCEPT !.outcome = Running], a, user_input, mode,
                         numTurns + 1))
    /\ numTurns' = numTurns + 1
    /\ numTop' = numTop + 1
    /\ UNCHANGED <<apart, elsewhere, config, numGen>>

\* a caller invokes agent.structuredAnswer(user_input, Output), Output = {count: int}
StructuredAnswer(a, user_input) ==
    /\ stack = <<>>
    /\ numTop < MaxTop
    /\ Becomes(StartStructured([Now EXCEPT !.outcome = Running], a, user_input,
                               numTurns + 1))
    /\ numTurns' = numTurns + 1
    /\ numTop' = numTop + 1
    /\ UNCHANGED <<apart, elsewhere, config, numGen>>

\* Agent._run, line 183: the budget is exhausted
RunExhausted ==
    /\ stack # <<>>
    /\ Top(stack).pc = "run"
    /\ Top(stack).iterations <= 0
    /\ Becomes(RaiseFrom(Now, MaxIterationsError))
    /\ UNCHANGED <<apart, elsewhere, config, numGen, numTurns, numTop>>

\* Agent._run, the backend answers with plain text
RunText ==
    /\ stack # <<>>
    /\ Top(stack).pc = "run"
    /\ Top(stack).iterations > 0
    /\ numGen < MaxGen
    /\ \E text \in Texts(Top(stack)) :
           Becomes(HandleResponse(Now, TextMessage("model", text)))
    /\ numGen' = numGen + 1
    /\ UNCHANGED <<apart, elsewhere, config, numTurns, numTop>>

\* Agent._run, the backend answers with tool calls
RunToolCalls ==
    /\ stack # <<>>
    /\ Top(stack).pc = "run"
    /\ Top(stack).iterations > 0
    /\ numGen < MaxGen
    /\ \E r \in 1..Len(Responses(Top(stack))) :
           Becomes(HandleResponse(Now, ToolCallResponse(Responses(Top(stack))[r])))
    /\ numGen' = numGen + 1
    /\ UNCHANGED <<apart, elsewhere, config, numTurns, numTop>>

\* Agent._run, LLM.generate fails: every one of the max_retries attempts
\* of LLM._infer ended in RetryLater
RunFailure ==
    /\ stack # <<>>
    /\ Top(stack).pc = "run"
    /\ Top(stack).iterations > 0
    /\ numGen < MaxGen
    /\ Becomes(HandleFailure(Now, MaxRetriesError))
    /\ numGen' = numGen + 1
    /\ UNCHANGED <<apart, elsewhere, config, numTurns, numTop>>

\* Agent._execute_tool on the next call of the response
ExecuteTool ==
    /\ stack # <<>>
    /\ Top(stack).pc = "exec"
    /\ LET f == Top(stack)
           tool_call == f.calls[Len(f.results) + 1]
           hooks == SelectHooks(hook_map[f.agent], tool_call.name)
           transformed == ApplyPreHooks(hooks, tool_call)
           effect == ExecuteToolRaw(transformed, f.active)
           S == SetTop([Now EXCEPT !.heard =
                                @ \o At(ListenBefore(f.agent, hooks, tool_call),
                                        Len(trace))],
                       [f EXCEPT !.cur = transformed])
       IN  /\ Becomes(CASE effect.kind = "value" ->
                             Deliver(S, Succeeded(effect.v))
                        [] effect.kind = "raise" ->
                             Deliver(S, Failed(effect.err))
                        [] effect.kind = "chat" ->
                             StartChat(BeforeChat(S, Top(S.stack), effect.agent,
                                                  effect.task),
                                       effect.agent, effect.task, "default",
                                       numTurns + 1))
           /\ numTurns' = IF effect.kind = "chat" THEN numTurns + 1 ELSE numTurns
    /\ UNCHANGED <<apart, elsewhere, config, numGen, numTop>>

(***************************************************************************)
(* Registering and removing hooks (between top-level calls).               *)
(***************************************************************************)
\* the registrations a caller makes: add_tool_hook(tool, pre=..., post=...)
HookMenu ==
    << [tool |-> "add", pre |-> "incr", post |-> ""],
       [tool |-> "add", pre |-> "", post |-> "bump"],
       [tool |-> "add", pre |-> "rewrite", post |-> "replace"] >>

\* Agent.add_tool_hook, lines 127-131: the local list hooks
NewHooks(tool_name, pre, post) ==
    (IF pre # "" THEN <<Hook(tool_name, "pre", pre)>> ELSE <<>>)
    \o (IF post # "" THEN <<Hook(tool_name, "post", post)>> ELSE <<>>)

RECURSIVE RemoveFirst(_, _)
\* list.remove(hook): the first entry equal to hook goes
RemoveFirst(list, hook) ==
    IF list = <<>> THEN <<>>
    ELSE IF Head(list) = hook THEN Tail(list)
    ELSE <<Head(list)>> \o RemoveFirst(Tail(list), hook)

RECURSIVE RemoveAll(_, _)
\* Agent.add_tool_hook, line 134: the remover, one list.remove per hook added
RemoveAll(list, hooks) ==
    IF hooks = <<>> THEN list
    ELSE RemoveAll(RemoveFirst(list, Head(hooks)), Tail(hooks))

Registration(a, hooks) == [agent |-> a, hooks |-> hooks, removed |-> FALSE]

\* a caller invokes agent.add_tool_hook(tool_name, pre=pre, post=post)
AddToolHook(a, tool_name, pre, post) ==
    /\ stack = <<>>
    /\ numTop = 0
    /\ Len(registrations) < MaxRegs
    /\ hook_map' = [hook_map EXCEPT ![a] = @ \o NewHooks(tool_name, pre, post)]
    /\ registrations' = Append(registrations,
                               Registration(a, NewHooks(tool_name, pre, post)))
    /\ UNCHANGED <<apart, elsewhere, history, tool_map, sub_agents, heard, max_iterations,
                   default_tool_mode, end_tool_mode, stack, outcome, trace,
                   numGen, numTurns, numTop>>

\* a caller invokes agent.listen_to_all_deligations(listener): one
\* add_tool_hook per sub-agent, with lambdas of its own as pre and post
ListenToAllDeligations(a) ==
    /\ stack = <<>>
    /\ numTop = 0
    /\ Len(registrations) < MaxRegs
    /\ sub_agents[a] # <<>>
    /\ LET fn == ListenerFns[Len(registrations) + 1]
           hooks == NewHooks(sub_agents[a][1].name, fn, fn)
       IN  /\ hook_map' = [hook_map EXCEPT ![a] = @ \o hooks]
           /\ registrations' = Append(registrations, Registration(a, hooks))
    /\ UNCHANGED <<apart, elsewhere, history, tool_map, sub_agents, heard, max_iterations,
                   default_tool_mode, end_tool_mode, stack, outcome, trace,
                   numGen, numTurns, numTop>>

\* a caller invokes the remover that registration r returned
RemoveHooks(r) ==
    /\ stack = <<>>
    /\ numTop = 0
    /\ r \in 1..Len(registrations)
    /\ ~registrations[r].removed
    /\ hook_map' = [hook_map EXCEPT ![registrations[r].agent] =
                                        RemoveAll(@, registrations[r].hooks)]
    /\ registrations' = [registrations EXCEPT ![r].removed = TRUE]
    /\ UNCHANGED <<apart, elsewhere, history, tool_map, sub_agents, heard, max_iterations,
                   default_tool_mode, end_tool_mode, stack, outcome, trace,
                   numGen, numTurns, numTop>>

(***************************************************************************)
(* Delegation trees: Agent.add_sub_agent and Agent.get_all_subagents.      *)
(***************************************************************************)
Team == {"A", "Helper", "Worker"}

\* the agents of the sub-agent tools of agent a
ChildrenOf(subs, a) == {subs[a][i].agent : i \in 1..Len(subs[a])}

RECURSIVE Closure(_, _)
\* the agents reachable from those of S along sub_agents
Closure(subs, S) ==
    LET T == S \cup UNION {ChildrenOf(subs, x) : x \in S}
    IN IF T = S THEN S ELSE Closure(subs, T)

\* the agents below a: reachable along at least one sub-agent tool
Below(subs, a) == Closure(subs, ChildrenOf(subs, a))

\* the recursion of get_all_subagents from a never ends
Endless(subs, a) == \E x \in {a} \cup Below(subs, a) : x \in Below(subs, x)

\* only the agent and the agents of its own sub-agent tools
get_all_subagents_direct(subs, a) ==
    <<a>> \o [i \in 1..Len(subs[a]) |-> subs[a][i].agent]

RECURSIVE get_all_subagents(_, _)
RECURSIVE ExtendAll(_, _, _)
\* for subagent in self.sub_agents: agents.extend(...)
ExtendAll(subs, tools, agents) ==
    IF tools = <<>> THEN agents
    ELSE ExtendAll(subs, Tail(tools),
                   agents \o get_all_subagents(subs, Head(tools).agent))

\* Agent.get_all_subagents, on a delegation graph where the recursion ends
get_all_subagents(subs, a) == ExtendAll(subs, subs[a], <<a>>)

\* a caller invokes a.add_sub_agent(b)
AddSubAgent(a, b) ==
    /\ Len(sub_agents["A"]) + Len(sub_agents["Helper"]) + Len(sub_agents["Worker"])
           < MaxEdges
    /\ sub_agents' = [sub_agents EXCEPT ![a] = Append(@, SubAgentTool(b))]
    /\ tool_map' = [tool_map EXCEPT ![a] = Put(@, SubAgentTool(b))]
    /\ UNCHANGED <<apart, history, hook_map, registrations, heard, max_iterations,
                   default_tool_mode, end_tool_mode, stack, outcome, trace,
                   numGen, numTurns, numTop, listed, inferVars>>

\* a caller invokes a.get_all_subagents()
GetAllSubagents(a) ==
    /\ Len(listed) < MaxListed
    /\ UNCHANGED <<apart, agentVars, inferVars>>
    /\ listed' = Append(listed,
           [agent |-> a,
            raised |-> IF Endless(sub_agents, a) THEN "RecursionError" ELSE "",
            agents |-> IF Endless(sub_agents, a) THEN <<>>
                       ELSE get_all_subagents(sub_agents, a),
            before |-> [sub_agents |-> sub_agents, tool_map |-> tool_map,
                        history |-> history],
            after |-> [sub_agents |-> sub_agents', tool_map |-> tool_map',
                       history |-> history']])

(***************************************************************************)
(* The backend wrapper: LLM._infer, run by workers (threads) that share    *)
(* the class attribute LLM._last_request_time.  Time is counted in ticks,  *)
(* Resolution ticks to the time-unit.  Worker 1 is the thread in which     *)
(* agent A runs its turn; worker 2 calls generate on a backend of its own. *)
(***************************************************************************)
Workers == {1, 2}

TurnWorker == 1

\* no distance is kept
no_interval == Resolution - Resolution

\* line 173: the minimum distance of two requests, one time-unit
min_interval == Resolution

\* line 184
base_delay == 5

\* line 168: the first request finds a time stamp ten time-units old
initial_age == 10

\* ToolCall.parse_args: json.loads rejects the arguments
DecodeError == "Invalid JSON string"

\* random.uniform(0, 1), in ticks: the two ends of the range
Jitters == {0, Resolution}

Out == [pc |-> "out", gen |-> 0, current_time |-> 0, retries |-> 0, wake |-> 0]

InferIdle ==
    /\ now = 0
    /\ last_request_time = [has |-> FALSE, t |-> 0]
    /\ worker = [w \in Workers |-> Out]
    /\ io = {}
    /\ budget = [ticks |-> 0, failures |-> 0]

Sleeping(w) == worker[w].pc \in {"wait", "backoff"}

\* a sleep that stops every thread of the process
BlockedWithProcess(w) == \E v \in Workers : Sleeping(v) /\ now < worker[v].wake

\* time.sleep: the calling thread, and no other, does not run before its
\* wake-up time; every step of a worker is taken by a thread that runs
Blocked(w) == Sleeping(w) /\ now < worker[w].wake

Inside(w) == worker[w].pc # "out"

\* worker w, in its generate call number gen, does ev at the time at
Note(w, ev, k, delay, error) ==
    io \cup {[ev |-> ev, w |-> w, gen |-> worker[w].gen, at |-> now, k |-> k,
              delay |-> delay, error |-> error, alone |-> FALSE]}

\* what the caller of generate does with its outcome: worker 1 is Agent._run
\* of the running turn, the caller of worker 2 is not modelled
Caller(w, S) ==
    IF w = TurnWorker
    THEN /\ Becomes(S)
         /\ numGen' = numGen + 1
         /\ UNCHANGED <<apart, config, numTurns, numTop>>
    ELSE UNCHANGED <<apart, agentVars>>

\* lines 167-168: _infer is entered, the time stamp is created if missing
Enter(w) ==
    /\ ~Inside(w)
    /\ ~Blocked(w)
    /\ worker[w].gen < MaxGenerate
    /\ worker' = [worker EXCEPT ![w] = [Out EXCEPT !.pc = "clock",
                                                   !.gen = worker[w].gen + 1]]
    /\ last_request_time' =
           IF last_request_time.has THEN last_request_time
           ELSE [has |-> TRUE, t |-> now - initial_age * Resolution]
    /\ io' = io \cup {[ev |-> "enter", w |-> w, gen |-> worker[w].gen + 1,
                        at |-> now, k |-> 0, delay |-> 0, error |-> "",
                        alone |-> \A v \in Workers \ {w} : ~Inside(v)]}
    /\ UNCHANGED <<apart, now, budget>>

\* Agent._run of the running turn calls self.llm.generate
RunGenerate ==
    /\ stack # <<>>
    /\ Top(stack).pc = "run"
    /\ Top(stack).iterations > 0
    /\ Enter(TurnWorker)
    /\ UNCHANGED <<apart, agentVars, listed>>

\* another thread calls generate on its own backend
Generate(w) ==
    /\ w # TurnWorker
    /\ Enter(w)
    /\ UNCHANGED <<apart, agentVars, listed>>

\* line 171: current_time = datetime.now().timestamp()
ReadClock(w) ==
    /\ worker[w].pc = "clock"
    /\ ~Blocked(w)
    /\ worker' = [worker EXCEPT ![w].pc = "check", ![w].current_time = now]
    /\ UNCHANGED <<apart, agentVars, listed, now, last_request_time, io, budget>>

\* lines 172-174: the time stamp is read and the remainder slept
RateCheck(w) ==
    /\ worker[w].pc = "check"
    /\ ~Blocked(w)
    /\ LET time_since_last_request == worker[w].current_time - last_request_time.t
       IN  IF time_since_last_request < min_interval
           THEN /\ worker' = [worker EXCEPT
                                  ![w].pc = "wait",
                                  ![w].wake = now + (min_interval
                                                     - time_since_last_request)]
                /\ io' = Note(w, "wait", 0,
                              min_interval - time_since_last_request, "")
           ELSE /\ worker' = [worker EXCEPT ![w].pc = "loop"]
                /\ io' = io
    /\ UNCHANGED <<apart, agentVars, listed, now, last_request_time, budget>>

\* time.sleep returns (line 174 or line 193)
WakeUp(w) ==
    /\ Sleeping(w)
    /\ ~Blocked(w)
    /\ worker' = [worker EXCEPT ![w].pc = "loop"]
    /\ io' = Note(w, "wake", worker[w].retries, 0, "")
    /\ UNCHANGED <<apart, agentVars, listed, now, last_request_time, budget>>

\* lines 179-182: the time stamp is set and the physical call starts
Attempt(w) ==
    /\ worker[w].pc = "loop"
    /\ ~Blocked(w)
    /\ worker[w].retries < max_retries
    /\ last_request_time' = [last_request_time EXCEPT !.t = now]
    /\ worker' = [worker EXCEPT ![w].pc = "call"]
    /\ io' = Note(w, "call", worker[w].retries, 0, "")
    /\ UNCHANGED <<apart, agentVars, listed, now, budget>>

\* line 182: _inferModel returns a message, which generate returns
Succeed(w) ==
    /\ worker[w].pc = "call"
    /\ ~Blocked(w)
    /\ worker' = [worker EXCEPT ![w].pc = "out"]
    /\ io' = Note(w, "return", worker[w].retries, 0, "")
    /\ Caller(w, HandleResponse(Now, TextMessage("model", "finished")))
    /\ UNCHANGED <<apart, listed, now, last_request_time, budget>>

\* a delay that grows by base_delay with every failure
LinearDelay(retries, jitter) == base_delay * (retries + 1) * Resolution + jitter

\* line 185: delay = base_delay * (2 ** (retries)) + random.uniform(0, 1)
Delay(retries, jitter) == base_delay * (2 ^ retries) * Resolution + jitter

\* lines 183-193: _inferModel raises RetryLater
Backoff(w, jitter) ==
    /\ worker[w].pc = "call"
    /\ ~Blocked(w)
    /\ LET delay == Delay(worker[w].retries, jitter)
       IN  /\ worker' = [worker EXCEPT ![w].pc = "backoff",
                                       ![w].retries = @ + 1,
                                       ![w].wake = now + delay]
           /\ io' = Note(w, "backoff", worker[w].retries, delay, "")
    /\ budget' = [budget EXCEPT !.failures = @ + 1]
    /\ UNCHANGED <<apart, agentVars, listed, now, last_request_time>>

\* a failure that the loop of the agent takes for an answer
FailKeepsTurn(w, error) ==
    /\ worker[w].pc = "call"
    /\ ~Blocked(w)
    /\ worker' = [worker EXCEPT ![w].pc = "out"]
    /\ io' = Note(w, "raise", worker[w].retries, 0, error)
    /\ Caller(w, HandleResponse(Now, TextMessage("model", error)))
    /\ UNCHANGED <<apart, listed, now, last_request_time, budget>>

\* line 182: _inferModel raises anything else, which no handler catches
Fail(w, error) ==
    /\ worker[w].pc = "call"
    /\ ~Blocked(w)
    /\ worker' = [worker EXCEPT ![w].pc = "out"]
    /\ io' = Note(w, "raise", worker[w].retries, 0, error)
    /\ Caller(w, HandleFailure(Now, error))
    /\ UNCHANGED <<apart, listed, now, last_request_time, budget>>

\* line 195: the loop ends, every attempt has failed
GiveUp(w) ==
    /\ worker[w].pc = "loop"
    /\ ~Blocked(w)
    /\ worker[w].retries >= max_retries
    /\ worker' = [worker EXCEPT ![w].pc = "out"]
    /\ io' = Note(w, "raise", worker[w].retries, 0, MaxRetriesError)
    /\ Caller(w, HandleFailure(Now, MaxRetriesError))
    /\ UNCHANGED <<apart, listed, now, last_request_time, budget>>

\* the clock advances by one tick
Tick ==
    /\ budget.ticks < MaxTicks
    /\ now' = now + 1
    /\ budget' = [budget EXCEPT !.ticks = @ + 1]
    /\ UNCHANGED <<apart, agentVars, listed, last_request_time, worker, io>>

\* the clock advances to the time a sleeping worker is due
Leap(w) ==
    /\ Blocked(w)
    /\ now' = worker[w].wake
    /\ UNCHANGED <<apart, agentVars, listed, last_request_time, worker, io, budget>>

(***************************************************************************)
(* ToolCall.args given as text: json.loads on the way in (parse_args),     *)
(* json.dumps on the way out (getMLFlowToolCall).  A text is a sequence of *)
(* characters over { } " : , space - a b x n u l and the digits; a Python  *)
(* dict is the sequence of its items in insertion order.                   *)
(***************************************************************************)
DictV(items) == [t |-> "dict", i |-> 0, s |-> "", items |-> items]

Item(key, value) == [key |-> key, value |-> value]

Quote == "\""

Digits == <<"0", "1", "2", "3", "4", "5", "6", "7", "8", "9">>

IsDigit(c) == \E d \in 1..10 : Digits[d] = c

DigitValue(c) == (CHOOSE d \in 1..10 : Digits[d] = c) - 1

\* the characters of the strings that occur as keys and values
Spell(s) ==
    CASE s = "" -> <<>>
      [] s = "a" -> <<"a">>
      [] s = "b" -> <<"b">>
      [] s = "x" -> <<"x">>
      [] s = "ab" -> <<"a", "b">>

RECURSIVE DumpNat(_)
DumpNat(i) ==
    IF i < 10 THEN <<Digits[i + 1]>> ELSE DumpNat(i \div 10) \o <<Digits[(i % 10) + 1]>>

\* a string written without its quotes
DumpStrBare(s) == Spell(s)

\* json.dumps of a str
DumpStr(s) == <<Quote>> \o Spell(s) \o <<Quote>>

RECURSIVE DumpValue(_, _)
RECURSIVE DumpItems(_, _)
\* json.dumps of the items of a dict, compact or with the default separators
DumpItems(items, compact) ==
    IF items = <<>> THEN <<>>
    ELSE DumpStr(Head(items).key)
         \o (IF compact THEN <<":">> ELSE <<":", " ">>)
         \o DumpValue(Head(items).value, compact)
         \o (IF Len(items) = 1 THEN <<>>
             ELSE (IF compact THEN <<",">> ELSE <<",", " ">>)
                  \o DumpItems(Tail(items), compact))

\* json.dumps of a value
DumpValue(v, compact) ==
    CASE v.t = "none" -> <<"n", "u", "l", "l">>
      [] v.t = "int" -> IF v.i < 0 THEN <<"-">> \o DumpNat(0 - v.i) ELSE DumpNat(v.i)
      [] v.t = "str" -> DumpStr(v.s)
      [] v.t = "dict" -> <<"{">> \o DumpItems(v.items, compact) \o <<"}">>

\* json.dumps(args)
Dumps(items) == DumpValue(DictV(items), FALSE)

\* the same mapping as a provider sends it: json.dumps(args, separators=(",", ":"))
DumpsCompact(items) == DumpValue(DictV(items), TRUE)

\* the character at position i, "" past the end
Ch(text, i) == IF i \in 1..Len(text) THEN text[i] ELSE ""

NoParse == [ok |-> FALSE, v |-> NoneV, pos |-> 0]

Parsed(v, pos) == [ok |-> TRUE, v |-> v, pos |-> pos]

RECURSIVE SkipWs(_, _)
\* json: whitespace is skipped
SkipWs(text, i) == IF Ch(text, i) = " " THEN SkipWs(text, i + 1) ELSE i

RECURSIVE ScanString(_, _, _)
\* json: the characters of a string up to the closing quote
ScanString(text, j, acc) ==
    IF j > Len(text) THEN NoParse
    ELSE IF text[j] = Quote THEN Parsed(StrV(acc), j + 1)
    ELSE ScanString(text, j + 1, acc \o text[j])

RECURSIVE ScanDigits(_, _, _)
ScanDigits(text, j, acc) ==
    IF IsDigit(Ch(text, j))
    THEN ScanDigits(text, j + 1, 10 * acc + DigitValue(text[j]))
    ELSE [v |-> acc, pos |-> j]

\* json: -? (0 | [1-9][0-9]*)
ParseNumber(text, i) ==
    LET negative == Ch(text, i) = "-"
        k == IF negative THEN i + 1 ELSE i
        digits == ScanDigits(text, k, 0)
    IN  IF Ch(text, k) = "0" THEN Parsed(IntV(0), k + 1)
        ELSE IF IsDigit(Ch(text, k))
        THEN Parsed(IntV(IF negative THEN 0 - digits.v ELSE digits.v), digits.pos)
        ELSE NoParse

\* d[key] = value
SetItem(items, key, value) ==
    IF \E n \in 1..Len(items) : items[n].key = key
    THEN [n \in 1..Len(items) |->
             IF items[n].key = key THEN Item(key, value) ELSE items[n]]
    ELSE Append(items, Item(key, value))

RECURSIVE ParseValue(_, _)
RECURSIVE ParseMembers(_, _, _)
\* json: the members of an object, from the first character of a key on
ParseMembers(text, j, acc) ==
    IF Ch(text, j) # Quote THEN NoParse
    ELSE LET key == ScanString(text, j + 1, "")
             colon == SkipWs(text, key.pos)
             value == ParseValue(text, SkipWs(text, colon + 1))
             after == SkipWs(text, value.pos)
         IN  IF ~key.ok THEN NoParse
             ELSE IF Ch(text, colon) # ":" THEN NoParse
             ELSE IF ~value.ok THEN NoParse
             ELSE IF Ch(text, after) = "}"
             THEN Parsed(DictV(SetItem(acc, key.v.s, value.v)), after + 1)
             ELSE IF Ch(text, after) = ","
             THEN ParseMembers(text, SkipWs(text, after + 1),
                               SetItem(acc, key.v.s, value.v))
             ELSE NoParse

\* json: one value that starts at position i
ParseValue(text, i) ==
    CASE Ch(text, i) = Quote -> ScanString(text, i + 1, "")
      [] Ch(text, i) = "{" ->
            IF Ch(text, SkipWs(text, i + 1)) = "}"
            THEN Parsed(DictV(<<>>), SkipWs(text, i + 1) + 1)
            ELSE ParseMembers(text, SkipWs(text, i + 1), <<>>)
      [] Ch(text, i) = "-" \/ IsDigit(Ch(text, i)) -> ParseNumber(text, i)
      [] Ch(text, i) = "n" ->
            IF Ch(text, i + 1) = "u" /\ Ch(text, i + 2) = "l" /\ Ch(text, i + 3) = "l"
            THEN Parsed(NoneV, i + 4)
            ELSE NoParse
      [] OTHER -> NoParse

\* json.loads(text): one value and nothing but whitespace around it
Loads(text) ==
    LET value == ParseValue(text, SkipWs(text, 1))
    IN  IF value.ok /\ SkipWs(text, value.pos) = Len(text) + 1
        THEN value
        ELSE NoParse

\* ToolCall(name=..., args=text): parse_args, then the validation of the field
\* type Dict[str, Any]
NewToolCall(text) ==
    LET value == Loads(text)
    IN  IF ~value.ok
        THEN [made |-> FALSE, error |-> DecodeError, args |-> <<>>]
        ELSE IF value.v.t # "dict"
        THEN [made |-> FALSE, error |-> "Input should be a valid dictionary",
              args |-> <<>>]
        ELSE [made |-> TRUE, error |-> "", args |-> value.v.items]

\* the keys, the values and the dicts the decoder is tried on
ArgKeys == {"a", "b"}

ArgValues == {IntV(0), IntV(12), IntV(0 - 3), StrV(""), StrV("ab"), NoneV,
              DictV(<<>>), DictV(<<Item("x", IntV(7))>>)}

ArgDicts ==
    {<<>>}
    \cup {<<Item(k, v)>> : k \in ArgKeys, v \in ArgValues}
    \cup UNION {{<<Item(k, v), Item(l, w)>> :
                     l \in ArgKeys \ {k}, v \in ArgValues, w \in ArgValues} :
                 k \in ArgKeys}

\* texts that are not JSON, and JSON texts that are not objects
Crafted ==
    << [text |-> <<>>, json |-> FALSE],
       [text |-> <<"{", Quote, "a", Quote, ":", "1", ",", "}">>, json |-> FALSE],
       [text |-> <<"{", "a", ":", "1", "}">>, json |-> FALSE],
       [text |-> <<"{", Quote, "a", Quote, " ", "1", "}">>, json |-> FALSE],
       [text |-> <<"{", Quote, "a", Quote, ":", "0", "1", "}">>, json |-> FALSE],
       [text |-> <<"{", Quote, "a", Quote, ":", "-", "}">>, json |-> FALSE],
       [text |-> <<"{", Quote, "a", Quote, ":", "n", "u", "l", "}">>, json |-> FALSE],
       [text |-> <<"{", "}", "x">>, json |-> FALSE],
       [text |-> <<"{", "}", "{", "}">>, json |-> FALSE],
       [text |-> <<"{", Quote, "a", ":", "1", "}">>, json |-> FALSE],
       [text |-> <<"1", "2">>, json |-> TRUE],
       [text |-> <<Quote, "x", Quote>>, json |-> TRUE],
       [text |-> <<"n", "u", "l", "l">>, json |-> TRUE],
       [text |-> <<" ", "{", " ", Quote, "a", Quote, " ", ":", " ", "-", "0", " ",
                   "}", " ">>, json |-> TRUE],
       [text |-> <<"{", Quote, "a", Quote, ":", "1", ",", Quote, "a", Quote, ":",
                   "2", "}">>, json |-> TRUE] >>

\* a ToolCall is made from text and its args are serialized again
Decode(kind, items, text, json) ==
    /\ Len(decoded) < MaxDecoded
    /\ LET call == NewToolCall(text)
       IN  decoded' = Append(decoded,
               [kind |-> kind, items |-> items, text |-> text, json |-> json,
                made |-> call.made, error |-> call.error, args |-> call.args,
                again |-> IF call.made THEN Dumps(call.args) ELSE <<>>])
    /\ UNCHANGED <<agentVars, listed, inferVars, allow_poking>>

\* the text is json.dumps(m), with the default or with compact separators
DecodeDumped(items, compact) ==
    /\ Len(decoded) < MaxDecoded
    /\ Decode(IF compact THEN "compact" ELSE "dumps", items,
              IF compact THEN DumpsCompact(items) ELSE Dumps(items), TRUE)

\* the text is json.dumps(m) cut short after n characters
DecodeCut(items, n) ==
    /\ Len(decoded) < MaxDecoded
    /\ n < Len(Dumps(items))
    /\ Decode("cut", items, SubSeq(Dumps(items), 1, n), FALSE)

\* the text is one of the crafted ones
DecodeCrafted(n) ==
    /\ Len(decoded) < MaxDecoded
    /\ Decode("crafted", <<>>, Crafted[n].text, Crafted[n].json)

(***************************************************************************)
(* The tool registry of an agent: Agent.add_tool, add_function_as_tool,    *)
(* add_sub_agent, the removers they return, and link_agents, which adds    *)
(* the tool through which the actor talks to its partners.                 *)
(***************************************************************************)
\* link_agents, lines 10-13: the key of partner number n of the list
\* (enumerate counts from 0)
UserKey(partners, anonymizePrefix, n) ==
    IF anonymizePrefix # ""
    THEN anonymizePrefix \o " " \o IntToStr(n - 1)
    ELSE agent_name(partners[n])

RECURSIVE PartnerMapUpTo(_, _, _)
PartnerMapUpTo(partners, anonymizePrefix, n) ==
    IF n = 0 THEN <<>>
    ELSE SetItem(PartnerMapUpTo(partners, anonymizePrefix, n - 1),
                 UserKey(partners, anonymizePrefix, n), partners[n])

\* link_agents, lines 10-13: the dict comprehension that makes partnerMap
PartnerMap(partners, anonymizePrefix) ==
    PartnerMapUpTo(partners, anonymizePrefix, Len(partners))

\* link_agents, lines 38-43: the tool made of single_interact or interact,
\* with the variables of link_agents that its closure keeps
InteractTool(interactionName, partners, anonymizePrefix) ==
    [name |-> interactionName,
     fn |-> IF Len(partners) = 1 THEN "single_interact" ELSE "interact",
     agent |-> "",
     partners |-> partners,
     anonymizePrefix |-> anonymizePrefix,
     partnerMap |-> PartnerMap(partners, anonymizePrefix)]

\* a tool of the application that looks something up
LookupTool(name) == Tool(name, "lookup", "")

\* tool_map.pop(name, None)
Without(m, name) == LET Keep(tool) == tool.name # name IN SelectSeq(m, Keep)

\* Agent.add_tool (Agent.add_function_as_tool after extract_tool): the tool
\* is registered under its name and a remover for that name is handed out
AddToolTo(a, tool) ==
    /\ Len(registrations) < MaxRegs
    /\ tool_map' = [tool_map EXCEPT ![a] = Put(@, tool)]
    /\ registrations' = Append(registrations,
                               [agent |-> a, name |-> tool.name, tool |-> tool,
                                removed |-> FALSE, calls |-> 0])
    /\ UNCHANGED <<apart, elsewhere, history, sub_agents, hook_map, heard,
                   max_iterations, default_tool_mode, end_tool_mode, stack,
                   outcome, trace, numGen, numTurns, numTop>>

\* a caller invokes add_tool(tool)
AddTool_(a, tool) ==
    /\ tool.agent = ""
    /\ AddToolTo(a, tool)

\* a caller invokes add_function_as_tool(function)
AddFunctionAsTool(a, function) ==
    /\ function \notin Team
    /\ AddToolTo(a, Tool(function, function, ""))

\* conversation.link_agents(actor, partners, interactionName=...,
\* anonymizePrefix=...) ("": None): the remover that add_tool returns is
\* dropped
LinkAgents(actor, partners, interactionName, anonymizePrefix) ==
    /\ tool_map' = [tool_map EXCEPT ![actor] =
                       Put(@, InteractTool(interactionName, partners, anonymizePrefix))]
    /\ UNCHANGED <<apart, elsewhere, history, sub_agents, hook_map, registrations,
                   heard, max_iterations, default_tool_mode, end_tool_mode, stack,
                   outcome, trace, numGen, numTurns, numTop>>

\* a caller invokes the remover that registration r returned, for the first
\* time or again
RemoveTool(r) ==
    /\ r \in 1..Len(registrations)
    /\ registrations[r].calls < MaxRemoves
    /\ tool_map' = [tool_map EXCEPT ![registrations[r].agent] =
                                        Without(@, registrations[r].name)]
    /\ registrations' = [registrations EXCEPT ![r].removed = TRUE,
                                              ![r].calls = @ + 1]
    /\ UNCHANGED <<apart, elsewhere, history, sub_agents, hook_map, heard,
                   max_iterations, default_tool_mode, end_tool_mode, stack,
                   outcome, trace, numGen, numTurns, numTop>>

(***************************************************************************)
(* A session: a caller makes several calls of agent A, which is linked     *)
(* with its partners (link_agents with a callback), pokes it, switches     *)
(* poking off and on and clears its history.                               *)
(***************************************************************************)
\* the calls a caller makes in one session
MaxCalls == 2

PokeInput == "Hey, I am ready, interact with me!"

PokingError(a) == "Poking is not allowed for " \o a

\* a poke that hands the input to the agent before it refuses
RefuseAfterInput(S, a) ==
    [S EXCEPT !.history = [@ EXCEPT ![a] = Append(@, TextMessage("user", PokeInput))],
              !.outcome = Raised(PokingError(a))]

\* Agent.poke, lines 141-142: raise RuntimeError
Refuse(S, a) == [S EXCEPT !.outcome = Raised(PokingError(a))]

\* a caller invokes agent.chat(user_input, tool_mode), one call of several
NextChat(a, user_input, mode) ==
    /\ stack = <<>>
    /\ numTop < MaxCalls
    /\ Becomes(StartChat([Now EXCEPT !.outcome = Running], a, user_input, mode,
                         numTurns + 1))
    /\ numTurns' = numTurns + 1
    /\ numTop' = numTop + 1
    /\ UNCHANGED <<apart, elsewhere, config, numGen>>

\* a caller invokes agent.structuredAnswer(user_input, Output), one call of
\* several
NextStructuredAnswer(a, user_input) ==
    /\ stack = <<>>
    /\ numTop < MaxCalls
    /\ Becomes(StartStructured([Now EXCEPT !.outcome = Running], a, user_input,
                               numTurns + 1))
    /\ numTurns' = numTurns + 1
    /\ numTop' = numTop + 1
    /\ UNCHANGED <<apart, elsewhere, config, numGen>>

\* a caller invokes agent.poke()
Poke(a) ==
    /\ stack = <<>>
    /\ numTop < MaxCalls
    /\ LET S == Log([Now EXCEPT !.outcome = Running],
                    [ev |-> "poke", top |-> numTop + 1, agent |-> a,
                     allowed |-> allow_poking[a]])
       IN  IF ~allow_poking[a]
           THEN Becomes(Refuse(S, a)) /\ numTurns' = numTurns
           ELSE /\ Becomes(StartChat(S, a, PokeInput, "default", numTurns + 1))
                /\ numTurns' = numTurns + 1
    /\ numTop' = numTop + 1
    /\ UNCHANGED <<apart, elsewhere, config, numGen>>

\* a caller sets agent.allow_poking
SetAllowPoking(a, value) ==
    /\ stack = <<>>
    /\ allow_poking[a] # value
    /\ allow_poking' = [allow_poking EXCEPT ![a] = value]
    /\ UNCHANGED <<agentVars, elsewhere, decoded>>

\* a caller invokes agent.clear_history() (on an empty history it changes
\* nothing)
ClearHistory(a) ==
    /\ stack = <<>>
    /\ history[a] # <<>>
    /\ history' = [history EXCEPT ![a] = <<>>]
    /\ trace' = Append(trace, [ev |-> "clear", agent |-> a])
    /\ UNCHANGED <<apart, elsewhere, config, heard, stack, outcome, numGen,
                   numTurns, numTop>>

Ask(user) == Call("ask", [user |-> StrV(user), request |-> StrV("q")])

\* the calls of the interaction tool the backend may emit
AskResponses == << <<Ask("Helper")>>, <<Ask("Nobody")>>, <<Ask("Nobody"), Ask("Worker")>> >>

\* Agent._run, the backend answers with calls of the interaction tool
RunAsk ==
    /\ stack # <<>>
    /\ Top(stack).pc = "run"
    /\ Top(stack).iterations > 0
    /\ numGen < MaxGen
    /\ Has(Top(stack).tool_map, "ask")
    /\ \E r \in 1..Len(AskResponses) :
           Becomes(HandleResponse(Now, ToolCallResponse(AskResponses[r])))
    /\ numGen' = numGen + 1
    /\ UNCHANGED <<apart, elsewhere, config, numTurns, numTop>>

\* Agent._run, the backend answers with a tool message that holds no call
\* (Vertex._inferModel: response.text raises and no candidate holds a
\* function call)
RunNoCalls ==
    /\ stack # <<>>
    /\ Top(stack).pc = "run"
    /\ Top(stack).iterations > 0
    /\ numGen < MaxGen
    /\ Becomes(HandleResponse(Now, ToolMessage("model", <<>>, <<>>)))
    /\ numGen' = numGen + 1
    /\ UNCHANGED <<apart, elsewhere, config, numTurns, numTop>>

(***************************************************************************)
(* Rosters: agent A is linked with one or two partners out of Helper,      *)
(* Worker and Deputy, by name or by number, and its backend addresses      *)
(* them.                                                                   *)
(***************************************************************************)
Staff == Team \cup {"Deputy"}

Candidates == Staff \ {"A"}

\* the lists of partners a caller passes to link_agents
Rosters ==
    {<<p>> : p \in Candidates}
        \cup UNION {{<<p, q>> : q \in Candidates \ {p}} : p \in Candidates}

\* the names the backend may address
RosterNames == {"Helper", "Worker", "Owner 0", "Owner 1"}

\* Agent._run, the backend answers with one call of the interaction tool,
\* for user if the tool takes a user
RunAddress(user) ==
    /\ stack # <<>>
    /\ Top(stack).pc = "run"
    /\ Top(stack).iterations > 0
    /\ numGen < MaxGen
    /\ Has(Top(stack).tool_map, "ask")
    /\ LET tool == Lookup(Top(stack).tool_map, "ask")
           call == IF tool.fn = "single_interact"
                   THEN Call("ask", [request |-> StrV("q")])
                   ELSE Ask(user)
       IN  Becomes(HandleResponse(Now, ToolCallResponse(<<call>>)))
    /\ numGen' = numGen + 1
    /\ UNCHANGED <<apart, elsewhere, config, numTurns, numTop>>

Init ==
    /\ history = [a \in Agents |-> <<>>]
    /\ sub_agents \in { [A |-> subs, Helper |-> <<>>] :
                        subs \in {<<>>, <<SubAgentTool("Helper")>>} }
    /\ tool_map = [a \in Agents |->
                     IF a = "A" THEN <<AddTool>> \o sub_agents[a] ELSE sub_agents[a]]
    /\ hook_map = [a \in Agents |-> <<>>]
    /\ registrations = <<>>
    /\ heard = <<>>
    /\ max_iterations \in [Agents -> 0..MaxIter]
    /\ \E m \in {AUTO, FORCE} : default_tool_mode = [A |-> AUTO, Helper |-> m]
    \* an agent no other agent delegates to is never run: one configuration of it
    /\ sub_agents["A"] = <<>> =>
           max_iterations["Helper"] = MaxIter /\ default_tool_mode["Helper"] = AUTO
    /\ \E e \in BOOLEAN : end_tool_mode = [a \in Agents |-> e]
    /\ stack = <<>>
    /\ outcome = Idle
    /\ trace = <<>>
    /\ numGen = 0
    /\ numTurns = 0
    /\ numTop = 0
    /\ listed = <<>>
    /\ InferIdle
    /\ allow_poking = [a \in Agents |-> TRUE]
    /\ decoded = <<>>

Next ==
    \/ \E input \in UserInputs, mode \in {"default", FORCE} :
           Chat("A", input, mode)
    \/ \E input \in UserInputs : StructuredAnswer("A", input)
    \/ RunExhausted
    \/ RunText
    \/ RunToolCalls
    \/ RunFailure
    \/ ExecuteTool

Spec == Init /\ [][Next]_vars

(***************************************************************************)
(* Hooks: agent A (tools add and Helper) gets hooks registered and         *)
(* removed, then runs one chat turn.                                       *)
(***************************************************************************)
InitHooks ==
    /\ history = [a \in Agents |-> <<>>]
    /\ sub_agents = [A |-> <<SubAgentTool("Helper")>>, Helper |-> <<>>]
    /\ tool_map = [A |-> <<AddTool, SubAgentTool("Helper")>>, Helper |-> <<>>]
    /\ hook_map = [a \in Agents |-> <<>>]
    /\ registrations = <<>>
    /\ heard = <<>>
    /\ max_iterations = [A |-> 2, Helper |-> 1]
    /\ default_tool_mode = [a \in Agents |-> AUTO]
    /\ end_tool_mode = [a \in Agents |-> FALSE]
    /\ stack = <<>>
    /\ outcome = Idle
    /\ trace = <<>>
    /\ numGen = 0
    /\ numTurns = 0
    /\ numTop = 0
    /\ listed = <<>>
    /\ InferIdle
    /\ allow_poking = [a \in Agents |-> TRUE]
    /\ decoded = <<>>

NextHooks ==
    \/ \E k \in 1..Len(HookMenu) :
           AddToolHook("A", HookMenu[k].tool, HookMenu[k].pre, HookMenu[k].post)
    \/ ListenToAllDeligations("A")
    \/ \E r \in 1..MaxRegs : RemoveHooks(r)
    \/ \E input \in UserInputs : Chat("A", input, "default")
    \/ RunExhausted
    \/ RunText
    \/ RunToolCalls
    \/ ExecuteTool

SpecHooks == InitHooks /\ [][NextHooks]_vars

(***************************************************************************)
(* Delegation trees: sub-agents are added to three agents, in any shape,   *)
(* and the agents below an agent are listed.                               *)
(***************************************************************************)
InitTree ==
    /\ history = [a \in Team |-> <<>>]
    /\ sub_agents = [a \in Team |-> <<>>]
    /\ tool_map = [a \in Team |-> <<AddTool>>]
    /\ hook_map = [a \in Team |-> <<>>]
    /\ registrations = <<>>
    /\ heard = <<>>
    /\ max_iterations = [a \in Team |-> 1]
    /\ default_tool_mode = [a \in Team |-> AUTO]
    /\ end_tool_mode = [a \in Team |-> FALSE]
    /\ stack = <<>>
    /\ outcome = Idle
    /\ trace = <<>>
    /\ numGen = 0
    /\ numTurns = 0
    /\ numTop = 0
    /\ listed = <<>>
    /\ InferIdle
    /\ allow_poking = [a \in Team |-> TRUE]
    /\ decoded = <<>>

NextTree ==
    \/ \E a \in Team, b \in Team : AddSubAgent(a, b)
    \/ \E a \in Team : GetAllSubagents(a)

SpecTree == InitTree /\ [][NextTree]_vars

(***************************************************************************)
(* The backend wrapper: agent A runs one chat turn in the thread of worker *)
(* 1 while worker 2 calls generate, each on a backend of its own.          *)
(***************************************************************************)
InitInfer == InitHooks

NextInfer ==
    \/ \E input \in UserInputs : Chat("A", input, "default")
    \/ RunGenerate
    \/ \E w \in Workers : Generate(w)
    \/ \E w \in Workers : ReadClock(w)
    \/ \E w \in Workers : RateCheck(w)
    \/ \E w \in Workers : WakeUp(w)
    \/ \E w \in Workers : Attempt(w)
    \/ \E w \in Workers : Succeed(w)
    \/ \E w \in Workers, jitter \in Jitters :
           budget.failures < MaxFailures /\ Backoff(w, jitter)
    \/ \E w \in Workers : Fail(w, DecodeError)
    \/ Tick
    \/ \E w \in Workers : Leap(w)

SpecInfer == InitInfer /\ [][NextInfer]_vars

(***************************************************************************)
(* Retries: agent A runs one chat turn whose generate call may fail any    *)
(* number of times; no other thread calls a backend.                       *)
(***************************************************************************)
NextRetry ==
    \/ \E input \in UserInputs : Chat("A", input, "default")
    \/ RunGenerate
    \/ ReadClock(TurnWorker)
    \/ RateCheck(TurnWorker)
    \/ WakeUp(TurnWorker)
    \/ Attempt(TurnWorker)
    \/ Succeed(TurnWorker)
    \/ \E jitter \in Jitters : Backoff(TurnWorker, jitter)
    \/ Fail(TurnWorker, DecodeError)
    \/ GiveUp(TurnWorker)
    \/ Tick
    \/ Leap(TurnWorker)

SpecRetry == InitInfer /\ [][NextRetry]_vars

(***************************************************************************)
(* The decoder of tool-call arguments on its own.                          *)
(***************************************************************************)
NextCodec ==
    \/ \E items \in ArgDicts, compact \in BOOLEAN : DecodeDumped(items, compact)
    \/ \E items \in ArgDicts, n \in 0..MaxCut : DecodeCut(items, n)
    \/ \E n \in 1..Len(Crafted) : DecodeCrafted(n)

SpecCodec == InitHooks /\ [][NextCodec]_vars

(***************************************************************************)
(* The tool registry: tools, functions and sub-agents are added to agent   *)
(* A and removed again, and A is linked with its partners.                 *)
(***************************************************************************)
NextRegistry ==
    \/ \E name \in {"lookup", "Helper"} : AddTool_("A", LookupTool(name))
    \/ \E function \in {"to_all", "ask"} : AddFunctionAsTool("A", function)
    \/ \E b \in {"Helper", "Worker"} : AddSubAgent("A", b)
    \/ \E interactionName \in {"ask", "Worker"} :
           LinkAgents("A", Partners, interactionName, "")
    \/ \E r \in 1..MaxRegs : RemoveTool(r)

SpecRegistry == InitTree /\ [][NextRegistry]_vars

(***************************************************************************)
(* A session of agent A, linked with Helper and Worker.                    *)
(***************************************************************************)
InitSession ==
    /\ history = [a \in Team |-> <<>>]
    /\ sub_agents = [a \in Team |-> <<>>]
    /\ tool_map = [a \in Team |->
                     IF a = "A"
                     THEN <<AddTool, InteractTool("ask", Partners, "")>>
                     ELSE <<>>]
    /\ hook_map = [a \in Team |-> <<>>]
    /\ registrations = <<>>
    /\ heard = <<>>
    /\ max_iterations = [a \in Team |-> IF a = "A" THEN 2 ELSE 1]
    /\ default_tool_mode = [a \in Team |-> AUTO]
    /\ \E e \in BOOLEAN : end_tool_mode = [a \in Team |-> e /\ a = "A"]
    /\ stack = <<>>
    /\ outcome = Idle
    /\ trace = <<>>
    /\ numGen = 0
    /\ numTurns = 0
    /\ numTop = 0
    /\ listed = <<>>
    /\ InferIdle
    /\ allow_poking = [a \in Team |-> TRUE]
    /\ decoded = <<>>

NextSession ==
    \/ \E input \in UserInputs, mode \in {"default", FORCE} :
           NextChat("A", input, mode)
    \/ \E input \in UserInputs : NextStructuredAnswer("A", input)
    \/ Poke("A")
    \/ \E value \in BOOLEAN : SetAllowPoking("A", value)
    \/ ClearHistory("A")
    \/ RunExhausted
    \/ RunText
    \/ RunToolCalls
    \/ RunAsk
    \/ RunNoCalls
    \/ RunFailure
    \/ ExecuteTool

SpecSession == InitSession /\ [][NextSession]_vars

(***************************************************************************)
(* Rosters: A is linked once and then called.                              *)
(***************************************************************************)
InitRoster ==
    /\ history = [a \in Staff |-> <<>>]
    /\ sub_agents = [a \in Staff |-> <<>>]
    /\ tool_map = [a \in Staff |-> IF a = "A" THEN <<AddTool>> ELSE <<>>]
    /\ hook_map = [a \in Staff |-> <<>>]
    /\ registrations = <<>>
    /\ heard = <<>>
    /\ max_iterations = [a \in Staff |-> IF a = "A" THEN 2 ELSE 1]
    /\ default_tool_mode = [a \in Staff |-> AUTO]
    /\ end_tool_mode = [a \in Staff |-> FALSE]
    /\ stack = <<>>
    /\ outcome = Idle
    /\ trace = <<>>
    /\ numGen = 0
    /\ numTurns = 0
    /\ numTop = 0
    /\ listed = <<>>
    /\ InferIdle
    /\ allow_poking = [a \in Staff |-> TRUE]
    /\ decoded = <<>>

NextRoster ==
    \/ \E partners \in Rosters, anonymizePrefix \in {"", "Owner"} :
           /\ numTop = 0
           /\ ~Has(tool_map["A"], "ask")
           /\ LinkAgents("A", partners, "ask", anonymizePrefix)
    \/ \E input \in UserInputs : NextChat("A", input, "default")
    \/ \E user \in RosterNames : RunAddress(user)
    \/ RunExhausted
    \/ RunText
    \/ RunFailure
    \/ ExecuteTool

SpecRoster == InitRoster /\ [][NextRoster]_vars

(***************************************************************************)
(* Cyclic delegation: A has the sub-agent Helper and Helper has the        *)
(* sub-agent A (add_sub_agent on both), so that the chat of A is entered   *)
(* again while a tool call of A is executing.                              *)
(***************************************************************************)
InitCycle ==
    /\ history = [a \in Agents |-> <<>>]
    /\ sub_agents = [A |-> <<SubAgentTool("Helper")>>, Helper |-> <<SubAgentTool("A")>>]
    /\ tool_map = [a \in Agents |->
                     IF a = "A" THEN <<AddTool>> \o sub_agents[a] ELSE sub_agents[a]]
    /\ hook_map = [a \in Agents |-> <<>>]
    /\ registrations = <<>>
    /\ heard = <<>>
    /\ max_iterations \in [Agents -> 1..MaxIter]
    /\ default_tool_mode = [a \in Agents |-> AUTO]
    /\ end_tool_mode = [a \in Agents |-> FALSE]
    /\ stack = <<>>
    /\ outcome = Idle
    /\ trace = <<>>
    /\ numGen = 0
    /\ numTurns = 0
    /\ numTop = 0
    /\ listed = <<>>
    /\ InferIdle
    /\ allow_poking = [a \in Agents |-> TRUE]
    /\ decoded = <<>>

NextCycle ==
    \/ \E input \in UserInputs : Chat("A", input, "default")
    \/ RunExhausted
    \/ RunText
    \/ RunToolCalls
    \/ RunFailure
    \/ ExecuteTool

SpecCycle == InitCycle /\ [][NextCycle]_vars

(***************************************************************************)
(* Reading the trace.                                                      *)
(***************************************************************************)
Events == 1..Len(trace)

Turns == 1..numTurns

StartOf(t) == trace[CHOOSE i \in Events : trace[i].ev = "start" /\ trace[i].turn = t]

Ended(t) == \E i \in Events : trace[i].ev = "end" /\ trace[i].turn = t

EndOf(t) == trace[CHOOSE i \in Events : trace[i].ev = "end" /\ trace[i].turn = t]

\* the generate calls of turn t, as positions of the trace
GensOf(t) == {i \in Events : trace[i].ev = "gen" /\ trace[i].turn = t}

EscapeGensOf(t) == {i \in GensOf(t) : IsEscape(trace[i].response)}

\* the next generate call of the same turn after position i, if there is one
HasNextGen(i) == \E j \in GensOf(trace[i].turn) : j > i

NextGen(i) ==
    trace[CHOOSE j \in GensOf(trace[i].turn) :
              j > i /\ \A k \in GensOf(trace[i].turn) : k > i => j <= k]

\* the backend of turn t called end_tool_mode only when it was offered that tool
EscapeOffered(t) ==
    \A i \in EscapeGensOf(t) :
        \E k \in 1..Len(trace[i].tools) : trace[i].tools[k] = "end_tool_mode"

ExhaustedEnd(e) == e.how = "raised" /\ e.error = MaxIterationsError

C2_Original ==
    \A i \in Events :
        ( /\ trace[i].ev = "gen"
          /\ trace[i].mode = FORCE
          /\ ~end_tool_mode[trace[i].agent] )
        => trace[i].tool_mode = AUTO

(***************************************************************************)
(* C2 amended: when the mode of the turn is FORCE and the backend does not *)
(* support the escape convention, that call is still issued with FORCE and *)
(* with the tool map unchanged (no escape tool); the demotion to AUTO      *)
(* takes effect from the next generate call of the turn on.                *)
(***************************************************************************)
C2_ForceOnceThenAuto ==
    \A i \in Events :
        ( /\ trace[i].ev = "gen"
          /\ trace[i].mode = FORCE
          /\ ~end_tool_mode[trace[i].agent] )
        => /\ trace[i].tool_mode = FORCE
           /\ \A k \in 1..Len(trace[i].tools) : trace[i].tools[k] # "end_tool_mode"
           /\ HasNextGen(i) => /\ NextGen(i).mode = AUTO
                               /\ NextGen(i).tool_mode = AUTO

\* a forced call on a backend without the escape, followed by another call
C2_Witness ==
    \E i \in Events :
        /\ trace[i].ev = "gen"
        /\ trace[i].mode = FORCE
        /\ ~end_tool_mode[trace[i].agent]
        /\ trace[i].response.type = "tool"
        /\ HasNextGen(i)

(***************************************************************************)
(* C3: a response that calls end_tool_mode is not appended to the          *)
(* messages of the turn, none of its calls is executed, the budget is not  *)
(* decremented, and the next generate call of the turn is issued with      *)
(* AUTO and the tool map the turn was started with (no escape tool).       *)
(***************************************************************************)
C3_EscapeRetries ==
    \A i \in Events :
        (trace[i].ev = "gen" /\ IsEscape(trace[i].response))
        => LET r == trace[i].response
               t == trace[i].turn
           IN  /\ \A a \in Agents : \A k \in 1..Len(history[a]) : history[a][k] # r
               /\ \A d \in 1..Len(stack) :
                      \A k \in 1..Len(stack[d].local) : stack[d].local[k] # r
               /\ \A j \in Events :
                      trace[j].ev = "exec"
                      => \A k \in 1..Len(r.tool_calls) :
                             trace[j].call.id # r.tool_calls[k].id
               /\ i < Len(trace)
                  => /\ trace[i + 1].ev = "gen"
                     /\ trace[i + 1].turn = t
                     /\ trace[i + 1].iterations = trace[i].iterations
                     /\ trace[i + 1].tool_mode = AUTO
                     /\ trace[i + 1].tools = StartOf(t).tools
                     /\ \A k \in 1..Len(trace[i + 1].tools) :
                            trace[i + 1].tools[k] # "end_tool_mode"
               /\ i = Len(trace)
                  => /\ stack # <<>>
                     /\ Top(stack).turn = t
                     /\ Top(stack).pc = "run"
                     /\ Top(stack).iterations = trace[i].iterations

\* an escape that came with another call, in a forced turn that offered the
\* escape tool, followed by the next generate call
C3_Witness ==
    \E i \in Events :
        /\ trace[i].ev = "gen"
        /\ IsEscape(trace[i].response)
        /\ Len(trace[i].response.tool_calls) = 2
        /\ trace[i].tool_mode = FORCE
        /\ trace[i].tools # StartOf(trace[i].turn).tools
        /\ i < Len(trace)

(***************************************************************************)
(* Scenario A: agent A, whose only tool is add, is asked chat("sum") in    *)
(* mode FORCE; the backend answers add(2,3) and then the text "5".         *)
(***************************************************************************)
TurnGens(t) ==
    LET Test(e) == e.ev = "gen" /\ e.turn = t IN SelectSeq(trace, Test)

ScenarioA ==
    /\ stack = <<>>
    /\ numTop = 1
    /\ tool_map["A"] = <<AddTool>>
    /\ StartOf(1).agent = "A"
    /\ StartOf(1).kind = "chat"
    /\ StartOf(1).tool_mode = FORCE
    /\ StartOf(1).input = "sum"
    /\ Len(TurnGens(1)) = 2
    /\ TurnGens(1)[1].response.type = "tool"
    /\ Len(TurnGens(1)[1].response.tool_calls) = 1
    /\ TurnGens(1)[1].response.tool_calls[1].name = "add"
    /\ TurnGens(1)[1].response.tool_calls[1].args = [a |-> IntV(2), b |-> IntV(3)]
    /\ TurnGens(1)[2].response = TextMessage("model", "5")

(***************************************************************************)
(* C4 as stated: in scenario A chat returns "5" and the history of the     *)
(* agent has exactly 3 entries.                                            *)
(***************************************************************************)
C4_Original ==
    ScenarioA => /\ outcome = Returned(StrV("5"))
                 /\ Len(history["A"]) = 3

(***************************************************************************)
(* C4 amended: in scenario A chat returns "5" and the history of the agent *)
(* has exactly 4 entries: the request, the tool call, the tool result      *)
(* (output 5) and the text "5".                                            *)
(***************************************************************************)
C4_ScenarioA ==
    ScenarioA
    => /\ outcome = Returned(StrV("5"))
       /\ Len(history["A"]) = 4
       /\ history["A"][1] = TextMessage("user", "sum")
       /\ history["A"][2] = TurnGens(1)[1].response
       /\ history["A"][3] =
              ToolMessage("user", <<>>,
                  << ToolResult(history["A"][2].tool_calls[1].id, "add",
                                ExecutionResult(TRUE, IntV(5), NoneV)) >>)
       /\ history["A"][4] = TextMessage("model", "5")

C4_Witness == ScenarioA /\ outcome.status = "returned"

(***************************************************************************)
(* The history an agent should hold, read off the log: for each of its     *)
(* chat turns the request, then every response that was appended, each     *)
(* tool-call response followed by the message with the results of its      *)
(* calls once the last of them has been executed.                          *)
(***************************************************************************)
ResultOfCall(tool_call) ==
    LET j == CHOOSE j \in Events : trace[j].ev = "exec" /\ trace[j].call.id = tool_call.id
    IN  ToolResult(tool_call.id, tool_call.name, trace[j].result)

ResponseOfCall(id) ==
    LET j == CHOOSE j \in Events :
                 /\ trace[j].ev = "gen"
                 /\ trace[j].response.type = "tool"
                 /\ \E k \in 1..Len(trace[j].response.tool_calls) :
                        trace[j].response.tool_calls[k].id = id
    IN  trace[j].response

RECURSIVE OwnMessages(_, _)
OwnMessages(a, i) ==
    IF i = 0 THEN <<>>
    ELSE LET e == trace[i]
             prev == OwnMessages(a, i - 1)
         IN  IF e.agent # a \/ StartOf(e.turn).kind # "chat" THEN prev
             ELSE CASE e.ev = "start" -> Append(prev, TextMessage("user", e.input))
                    [] e.ev = "gen" ->
                         IF e.response.type = "error" THEN prev
                         ELSE IF IsEscape(e.response) THEN prev
                         ELSE Append(prev, e.response)
                    [] e.ev = "exec" ->
                         LET r == ResponseOfCall(e.call.id)
                             n == Len(r.tool_calls)
                         IN  IF r.tool_calls[n].id # e.call.id THEN prev
                             ELSE Append(prev,
                                      ToolMessage("user", <<>>,
                                          [k \in 1..n |-> ResultOfCall(r.tool_calls[k])]))
                    [] e.ev = "end" -> prev

(***************************************************************************)
(* Scenario B: A delegates once to its sub-agent Helper, which answers the *)
(* text "done"; A then answers the text "finished".                        *)
(***************************************************************************)
ScenarioB ==
    /\ stack = <<>>
    /\ numTop = 1
    /\ numTurns = 2
    /\ StartOf(1).agent = "A"
    /\ StartOf(1).kind = "chat"
    /\ StartOf(2).agent = "Helper"
    /\ Len(TurnGens(1)) = 2
    /\ TurnGens(1)[1].response.type = "tool"
    /\ Len(TurnGens(1)[1].response.tool_calls) = 1
    /\ TurnGens(1)[1].response.tool_calls[1].name = "Helper"
    /\ TurnGens(1)[2].response = TextMessage("model", "finished")
    /\ Len(TurnGens(2)) = 1
    /\ TurnGens(2)[1].response = TextMessage("model", "done")

(***************************************************************************)
(* C5: each agent's history holds exactly the messages of its own chat     *)
(* turns (a delegated turn contributes the task as one user text message   *)
(* followed by the sub-agent's own messages), no message of A's history    *)
(* appears in Helper's, and in scenario B A.chat returns A's final text    *)
(* while Helper's history is one user message and one model text message.  *)
(***************************************************************************)
C5_HistoriesSeparate ==
    /\ \A a \in Agents : history[a] = OwnMessages(a, Len(trace))
    /\ \A k \in 1..Len(history["A"]) : \A l \in 1..Len(history["Helper"]) :
           history["A"][k] # history["Helper"][l]
    /\ ScenarioB
       => /\ outcome = Returned(StrV("finished"))
          /\ history["Helper"] = << TextMessage("user", "task"),
                                    TextMessage("model", "done") >>
          /\ Len(history["A"]) = 4
          /\ history["A"][3].tool_results[1].result
                 = ExecutionResult(TRUE, StrV("done"), NoneV)

C5_Witness == ScenarioB /\ outcome.status = "returned" /\ history["Helper"] # <<>>

(***************************************************************************)
(* Reading structuredAnswer turns off the log.                             *)
(***************************************************************************)
StructuredTurns == { t \in Turns : StartOf(t).kind = "structured" }

SetOutputCalls(response) ==
    LET Test(tc) == tc.name = "set_output"
    IN  IF response.type = "tool" THEN SelectSeq(response.tool_calls, Test) ELSE <<>>

MatchesSchema(tool_call) ==
    DOMAIN tool_call.args = {"count"} /\ tool_call.args.count.t = "int"

\* the generate calls whose response had (some of) its calls executed
ExecutedGens(t) ==
    { i \in GensOf(t) :
        /\ trace[i].response.type = "tool"
        /\ \E j \in Events : /\ trace[j].ev = "exec"
                             /\ trace[j].call.id = trace[i].response.tool_calls[1].id }

LastGen(t, i) == \A j \in GensOf(t) : j <= i

(***************************************************************************)
(* C6 as stated: structuredAnswer starts the loop with budget 1, FORCE and *)
(* only set_output; a response that calls set_output with matching         *)
(* arguments makes the call return the decoded value; at most one          *)
(* tool-call response is executed; a response that yields no set_output    *)
(* result ends the call with the iteration-exhaustion failure, without a   *)
(* further generate call.  (Here the backend calls end_tool_mode only when *)
(* that tool was offered to it.)                                           *)
(***************************************************************************)
C6_Original ==
    \A t \in {u \in StructuredTurns : EscapeOffered(u)} :
        /\ StartOf(t).iterations = 1
        /\ StartOf(t).tool_mode = FORCE
        /\ StartOf(t).tools = <<"set_output">>
        /\ Cardinality(ExecutedGens(t)) <= 1
        /\ \A i \in GensOf(t) :
              LET r == trace[i].response
                  calls == SetOutputCalls(r)
              IN  /\ ( /\ calls # <<>>
                       /\ \A k \in 1..Len(calls) : MatchesSchema(calls[k])
                       /\ Ended(t) )
                     => /\ EndOf(t).how = "returned"
                        /\ EndOf(t).value = ObjV(calls[1].args.count.i)
                  /\ ( /\ r.type # "error"
                       /\ \A j \in Events :
                             (trace[j].ev = "exec" /\ trace[j].turn = t)
                             => \A k \in 1..Len(calls) : trace[j].call.id # calls[k].id )
                     => /\ LastGen(t, i)
                        /\ Ended(t) => ExhaustedEnd(EndOf(t))

(***************************************************************************)
(* C6 amended: the same for every response that does not call              *)
(* end_tool_mode, the value returned being that of the first set_output    *)
(* call of the response; a response that calls end_tool_mode is discarded  *)
(* and the backend is asked again within the same budget of 1.             *)
(***************************************************************************)
C6_StructuredOnce ==
    \A t \in StructuredTurns :
        /\ StartOf(t).iterations = 1
        /\ StartOf(t).tool_mode = FORCE
        /\ StartOf(t).tools = <<"set_output">>
        /\ Cardinality(ExecutedGens(t)) <= 1
        /\ \A i \in GensOf(t) :
              LET r == trace[i].response
                  calls == SetOutputCalls(r)
              IN  /\ trace[i].iterations = 1
                  /\ IsEscape(r) => ~LastGen(t, i) \/ ~Ended(t)
                  /\ (r.type # "error" /\ ~IsEscape(r))
                     => /\ LastGen(t, i)
                        /\ (calls # <<>> /\ MatchesSchema(calls[1]) /\ Ended(t))
                           => /\ EndOf(t).how = "returned"
                              /\ EndOf(t).value = ObjV(calls[1].args.count.i)
                        /\ (calls = <<>> /\ Ended(t))
                           => ExhaustedEnd(EndOf(t))

\* a structured answer whose first response was discarded as an escape and
\* whose second returned the decoded value, and one that ran out of budget
C6_Witness ==
    \E t \in StructuredTurns :
        /\ Ended(t)
        /\ EndOf(t).how = "returned"
        /\ EndOf(t).value = ObjV(7)
        /\ EscapeGensOf(t) # {}
        /\ EscapeOffered(t)

(***************************************************************************)
(* C7 as stated: whenever structuredAnswer returns normally the value is   *)
(* the decoded structured value; a set_output call that failed is never    *)
(* returned as an absent value.                                            *)
(***************************************************************************)
C7_Stated ==
    \A t \in StructuredTurns :
        (Ended(t) /\ EndOf(t).how = "returned")
        => /\ EndOf(t).value.t = "obj"
           /\ t = 1 /\ stack = <<>> /\ numTop = 1 => outcome.value.t = "obj"

(***************************************************************************)
(* C8 as stated: once a turn has ended with the iteration-exhaustion or    *)
(* the max-retries failure, nothing more happens in the top-level call it  *)
(* belongs to except that the enclosing turns end with that same failure.  *)
(***************************************************************************)
C8_Stated ==
    \A i \in Events :
        ( /\ trace[i].ev = "end"
          /\ trace[i].how = "raised"
          /\ trace[i].error \in {MaxIterationsError, MaxRetriesError} )
        => \A j \in Events :
               (j > i /\ trace[j].top = trace[i].top)
               => /\ trace[j].ev = "end"
                  /\ trace[j].how = "raised"
                  /\ trace[j].error = trace[i].error

(***************************************************************************)
(* Reading tool executions off the log.                                    *)
(***************************************************************************)
Execs == { i \in Events : trace[i].ev = "exec" }

\* the position of the call of exec event i in its response
PosOf(i) ==
    LET r == ResponseOfCall(trace[i].call.id)
    IN  CHOOSE k \in 1..Len(r.tool_calls) : r.tool_calls[k].id = trace[i].call.id

IsLastCall(i) == PosOf(i) = Len(ResponseOfCall(trace[i].call.id).tool_calls)

\* the generate call whose response holds the call of exec event i
GenOfExec(i) ==
    trace[CHOOSE j \in Events :
              /\ trace[j].ev = "gen"
              /\ trace[j].response = ResponseOfCall(trace[i].call.id)]

LaterOf(i) == { j \in Events : j > i /\ trace[j].turn = trace[i].turn }

NextOf(i) == trace[CHOOSE j \in LaterOf(i) : \A k \in LaterOf(i) : j <= k]

OnStack(t) == \E d \in 1..Len(stack) : stack[d].turn = t

FrameOf(t) == stack[CHOOSE d \in 1..Len(stack) : stack[d].turn = t]

MessagesOf(f) == IF f.kind = "chat" THEN history[f.agent] ELSE f.local

\* the message with the results of the response that holds the call of i
ResultsMessageOf(i) ==
    LET r == ResponseOfCall(trace[i].call.id)
    IN  ToolMessage("user", <<>>,
            [k \in 1..Len(r.tool_calls) |-> ResultOfCall(r.tool_calls[k])])

\* the failure the callable of exec event i raised ("" if it raised none):
\* the callable itself, or the turn of the sub-agent it delegated to
RaisedBy(i) ==
    LET e == trace[i]
        effect == ExecuteToolRaw(e.cur, e.map)
    IN  IF ~Has(e.map, e.cur.name) THEN ""
        ELSE IF effect.kind = "raise" THEN effect.err
        ELSE IF effect.kind = "chat" /\ trace[i - 1].ev = "end"
                /\ trace[i - 1].how = "raised"
             THEN trace[i - 1].error
        ELSE ""

\* the remaining calls of the response are executed in response order
RemainingExecuted(i) ==
    ~IsLastCall(i)
    => /\ LaterOf(i) = {} => /\ OnStack(trace[i].turn)
                             /\ FrameOf(trace[i].turn).pc = "exec"
                             /\ Len(FrameOf(trace[i].turn).results) = PosOf(i)
       /\ LaterOf(i) # {}
          => /\ NextOf(i).ev = "exec"
             /\ NextOf(i).call =
                    ResponseOfCall(trace[i].call.id).tool_calls[PosOf(i) + 1]

\* after the last call the loop goes on to its next activation, with the
\* results appended to the messages of the turn
LoopProceeds(i) ==
    IsLastCall(i)
    => /\ LaterOf(i) = {}
          => /\ OnStack(trace[i].turn)
             /\ FrameOf(trace[i].turn).pc = "run"
             /\ FrameOf(trace[i].turn).iterations = GenOfExec(i).iterations - 1
             /\ LET m == MessagesOf(FrameOf(trace[i].turn))
                IN  m # <<>> /\ m[Len(m)] = ResultsMessageOf(i)
       /\ LaterOf(i) # {}
          => \/ /\ NextOf(i).ev = "gen"
                /\ NextOf(i).iterations = GenOfExec(i).iterations - 1
             \/ /\ NextOf(i).ev = "end"
                /\ ExhaustedEnd(NextOf(i))
                /\ GenOfExec(i).iterations = 1

(***************************************************************************)
(* C9 as stated: a failure raised by a tool callable is recorded as a      *)
(* result with success = false and the stringified failure as error, the   *)
(* remaining calls of the response are executed in response order, and the *)
(* loop proceeds (to the next backend call, or to the budget check that    *)
(* precedes it) with the results appended to the messages of the turn.     *)
(***************************************************************************)
C9_Stated ==
    \A i \in Execs :
        RaisedBy(i) # ""
        => /\ trace[i].result = ExecutionResult(FALSE, NoneV, StrV(RaisedBy(i)))
           /\ RemainingExecuted(i)
           /\ LoopProceeds(i)

\* the same, in chat turns only
C9_ChatTurns ==
    \A i \in Execs :
        (RaisedBy(i) # "" /\ StartOf(trace[i].turn).kind = "chat")
        => /\ trace[i].result = ExecutionResult(FALSE, NoneV, StrV(RaisedBy(i)))
           /\ RemainingExecuted(i)
           /\ LoopProceeds(i)

(***************************************************************************)
(* C10: executing a call whose name is absent from the active tool map     *)
(* yields success = false with an error that names the tool and lists the  *)
(* names of the active tool map; nothing is raised: the remaining calls    *)
(* are executed and no turn ends with that error.                          *)
(***************************************************************************)
NotFoundError(name, names) ==
    "Tool '" \o name \o "' not found, available tools: " \o Join(names, ", ")

C10_UnknownTool ==
    \A i \in Execs :
        LET e == trace[i]
            err == NotFoundError(e.cur.name, e.tools)
        IN  (\A k \in 1..Len(e.tools) : e.tools[k] # e.cur.name)
            => /\ e.result = ExecutionResult(FALSE, NoneV, StrV(err))
               /\ RemainingExecuted(i)
               /\ \A j \in Events : trace[j].ev = "end" => trace[j].error # err
               /\ LaterOf(i) = {} => OnStack(e.turn)
               /\ (IsLastCall(i) /\ LaterOf(i) # {})
                  => \/ NextOf(i).ev = "gen"
                     \/ NextOf(i).ev = "end" /\ NextOf(i).how = "returned"
                     \/ NextOf(i).ev = "end" /\ ExhaustedEnd(NextOf(i))

\* an unknown call in a forced turn that offers the escape tool, followed
\* by the execution of the next call of the same response
C10_Witness ==
    \E i \in Execs :
        /\ \A k \in 1..Len(trace[i].tools) : trace[i].tools[k] # trace[i].cur.name
        /\ \E k \in 1..Len(trace[i].tools) : trace[i].tools[k] = "end_tool_mode"
        /\ Len(trace[i].tools) >= 2
        /\ LaterOf(i) # {}
        /\ NextOf(i).ev = "exec"

(***************************************************************************)
(* Reading hooked executions off the log.                                  *)
(***************************************************************************)
Front(seq) == SubSeq(seq, 1, Len(seq) - 1)

Last(seq) == seq[Len(seq)]

OfKind(hooks, kind) ==
    LET Test(h) == h.kind = kind IN SelectSeq(hooks, Test)

RECURSIVE CallAfter(_, _)
\* the call left by the pre-hooks pres, run in order on tool_call: what the
\* last of them returns for the call left by those before it, unless that
\* is nothing
CallAfter(pres, tool_call) ==
    IF pres = <<>> THEN tool_call
    ELSE LET seen == CallAfter(Front(pres), tool_call)
             returned == PreReturn(Last(pres), seen)
         IN  IF returned = NoneV THEN seen ELSE returned

RECURSIVE ResultAfter(_, _, _)
\* the result left by the post-hooks posts, run in order on result
ResultAfter(posts, tool_call, result) ==
    IF posts = <<>> THEN result
    ELSE LET seen == ResultAfter(Front(posts), tool_call, result)
             returned == PostReturn(Last(posts), tool_call, seen)
         IN  IF returned = NoneV THEN seen ELSE returned

\* the turn a delegating exec event started: it ended just before the event
ChildOf(i) == trace[i - 1].turn

\* what the callable of exec event i did with the call it was given
CallableSaw(i, tool_call) ==
    LET e == trace[i]
        effect == ExecuteToolRaw(tool_call, e.map)
    IN  CASE effect.kind = "value" -> e.raw = ExecutionResult(TRUE, effect.v, NoneV)
          [] effect.kind = "raise" -> e.raw = ExecutionResult(FALSE, NoneV, StrV(effect.err))
          [] effect.kind = "chat" ->
                /\ trace[i - 1].ev = "end"
                /\ StartOf(ChildOf(i)).agent = effect.agent
                /\ StartOf(ChildOf(i)).input = effect.task

\* the tool results with the id of call, wherever a history holds them
RecordedResults(id) ==
    { history[a][k].tool_results[n].result :
        <<a, k, n>> \in { x \in Agents \X (1..4 * MaxGen + 4) \X (1..3) :
                            /\ x[2] <= Len(history[x[1]])
                            /\ history[x[1]][x[2]].type = "tool"
                            /\ x[3] <= Len(history[x[1]][x[2]].tool_results)
                            /\ history[x[1]][x[2]].tool_results[x[3]].id = id } }

(***************************************************************************)
(* C11: the pre-hooks registered for the name of a call run in             *)
(* registration order before the callable, each return value that is not   *)
(* nothing replacing the call seen by the later pre-hooks and by the       *)
(* callable; the post-hooks run in registration order after it, each       *)
(* return value that is not nothing replacing the result; the result       *)
(* recorded in the history is the one left by the last post-hook.          *)
(***************************************************************************)
C11_HooksInOrder ==
    \A i \in Execs :
        LET e == trace[i]
            pres == OfKind(e.registered, "pre")
            posts == OfKind(e.registered, "post")
        IN  /\ e.registered = SelectHooks(hook_map[e.agent], e.call.name)
            /\ e.cur = CallAfter(pres, e.call)
            /\ CallableSaw(i, CallAfter(pres, e.call))
            /\ e.result = ResultAfter(posts, e.cur, e.raw)
            /\ RecordedResults(e.call.id) \subseteq {e.result}
            /\ (\E j \in Execs : j >= i /\ trace[j].turn = e.turn /\ IsLastCall(j)
                                 /\ ResponseOfCall(trace[j].call.id)
                                      = ResponseOfCall(e.call.id))
               => RecordedResults(e.call.id) = {e.result}

\* add(2,3) under the hooks incr, rewrite/replace and bump: the callable is
\* given (1,1) and the history records "replaced!"
C11_Witness ==
    \E i \in Execs :
        /\ Len(OfKind(trace[i].registered, "pre")) = 2
        /\ Len(OfKind(trace[i].registered, "post")) = 2
        /\ trace[i].registered[1].fn = "incr"
        /\ trace[i].call.args = [a |-> IntV(2), b |-> IntV(3)]
        /\ trace[i].cur.args = RewrittenArgs
        /\ trace[i].raw = ExecutionResult(TRUE, IntV(2), NoneV)
        /\ trace[i].result = ExecutionResult(TRUE, StrV("replaced!"), NoneV)
        /\ RecordedResults(trace[i].call.id) = {trace[i].result}

RECURSIVE HooksOf(_, _)
\* the hooks of the first n registrations on agent a whose remover was not
\* called, in registration order
HooksOf(a, n) ==
    IF n = 0 THEN <<>>
    ELSE LET r == registrations[n]
         IN  HooksOf(a, n - 1)
             \o (IF r.agent = a /\ ~r.removed THEN r.hooks ELSE <<>>)

NotListeners(hooks) ==
    LET Test(h) == ~IsListener(h.fn) IN SelectSeq(hooks, Test)

Listeners(hooks, kind) ==
    LET Test(h) == IsListener(h.fn) /\ h.kind = kind IN SelectSeq(hooks, Test)

HeardOf(id, when) ==
    LET Test(x) == x.id = id /\ x.when = when IN SelectSeq(heard, Test)

\* the exec events of calls that delegated a task to a sub-agent
DelegationExecs ==
    { i \in Execs : ExecuteToolRaw(trace[i].cur, trace[i].map).kind = "chat" }

StartIndex(t) == CHOOSE i \in Events : trace[i].ev = "start" /\ trace[i].turn = t

(***************************************************************************)
(* C20: a listener attached with listen_to_all_deligations is invoked once *)
(* before each delegation call, with the deciding agent, the target and    *)
(* the task text, and once after it, with the pair and the result text;    *)
(* the call the callable is given, the task the sub-agent receives and the *)
(* result recorded are those the other hooks alone produce, as in the run  *)
(* without the listener.                                                   *)
(***************************************************************************)
C20_ListenerTransparent ==
    /\ \A i \in Execs :
        LET e == trace[i]
            others == NotListeners(e.registered)
        IN  /\ e.cur = CallAfter(OfKind(others, "pre"), e.call)
            /\ e.result = ResultAfter(OfKind(others, "post"), e.cur, e.raw)
            /\ RecordedResults(e.call.id) \subseteq {e.result}
    /\ \A i \in DelegationExecs :
        LET e == trace[i]
            n == Len(Listeners(e.registered, "pre"))
            before == HeardOf(e.call.id, "pre")
            after == HeardOf(e.call.id, "post")
        IN  /\ Len(Listeners(e.registered, "post")) = n
            /\ Len(before) = n
            /\ Len(after) = n
            /\ StartOf(ChildOf(i)).input = e.call.args.task.s
            /\ \A k \in 1..n :
                  /\ before[k].from = e.agent
                  /\ before[k].to = StartOf(ChildOf(i)).agent
                  /\ before[k].text = StrV(StartOf(ChildOf(i)).input)
                  /\ before[k].at < StartIndex(ChildOf(i))
                  /\ after[k].from = StartOf(ChildOf(i)).agent
                  /\ after[k].to = e.agent
                  /\ after[k].text = StrV(toString(e.result))
                  /\ after[k].at = i - 1
                  /\ EndOf(ChildOf(i)).how = "returned"
                     => after[k].text = EndOf(ChildOf(i)).value
    /\ \A k \in 1..Len(heard) :
        \E i \in Events \cup {Len(trace) + 1} :
            /\ i = heard[k].at + 1
            /\ i <= Len(trace) =>
                  \/ trace[i].ev = "exec" /\ trace[i].call.id = heard[k].id
                  \/ trace[i].ev = "start" /\ heard[k].when = "pre"

\* a delegation heard by two listeners, the sub-agent answering "done"
C20_Witness ==
    \E i \in DelegationExecs :
        /\ Len(Listeners(trace[i].registered, "pre")) = 2
        /\ Len(HeardOf(trace[i].call.id, "post")) = 2
        /\ HeardOf(trace[i].call.id, "pre")[1].text = StrV("task")
        /\ HeardOf(trace[i].call.id, "post")[2].text = StrV("done")
        /\ trace[i].result = ExecutionResult(TRUE, StrV("done"), NoneV)
        /\ stack = <<>>
        /\ outcome = Returned(StrV("finished"))

(***************************************************************************)
(* Listing the agents of a delegation tree.                                *)
(***************************************************************************)
Listings == 1..Len(listed)

Range(seq) == {seq[i] : i \in 1..Len(seq)}

\* p is a chain of delegations: each agent is a sub-agent of the one before
IsChain(subs, p) ==
    \A i \in 1..(Len(p) - 1) :
        \E k \in 1..Len(subs[p[i]]) : subs[p[i]][k].agent = p[i + 1]

\* b is a, or a sub-agent of a, or a sub-agent of a sub-agent of a, ...
Descends(subs, a, b) ==
    \E n \in 1..Cardinality(Team) :
        \E p \in [1..n -> Team] : p[1] = a /\ p[n] = b /\ IsChain(subs, p)

\* C19: on an unchanged delegation graph in which no agent is below itself,
\* get_all_subagents returns the agent itself and every agent reachable from
\* it along sub-agent tools and no other agent; a second call right after
\* the first, with sub_agents unchanged, returns the same list; and the call
\* leaves sub_agents, tool_map and history of every agent as they were.
C19_SameAgents ==
    \A i \in Listings :
        LET e == listed[i]
        IN  /\ e.after = e.before
            /\ e.raised = "" =>
                   Range(e.agents) =
                       {b \in Team : Descends(e.before.sub_agents, e.agent, b)}
            /\ \A j \in Listings :
                   /\ j = i + 1
                   /\ listed[j].agent = e.agent
                   /\ listed[j].before.sub_agents = e.before.sub_agents
                   => /\ listed[j].agents = e.agents
                      /\ listed[j].raised = e.raised

\* A, with Helper below it and Worker below Helper, is listed twice in a row
C19_Witness ==
    /\ Len(listed) = 2
    /\ listed[1].agent = "A" /\ listed[2].agent = "A"
    /\ listed[1].before.sub_agents = listed[2].before.sub_agents
    /\ listed[1].agents = <<"A", "Helper", "Worker">>
    /\ listed[2].agents = <<"A", "Helper", "Worker">>
    /\ listed[1].before.sub_agents["A"] = <<SubAgentTool("Helper")>>

(***************************************************************************)
(* Reading what the backend wrapper did.                                   *)
(***************************************************************************)
\* the physical backend calls: who started one, in which generate call, when
PhysicalCalls == {e \in io : e.ev = "call"}

Did(ev) == {e \in io : e.ev = ev}

\* the events of the generate call that e belongs to
SameGenerate(e) == {d \in io : d.w = e.w /\ d.gen = e.gen}

Apart(c, d) == c.at - d.at >= Resolution \/ d.at - c.at >= Resolution

\* no generate call was entered while another one was running
OneAfterTheOther == \A e \in Did("enter") : e.alone

\* C12: when the generate calls of the process are issued one after the
\* other (none is entered while another runs), on different backends, any two
\* physical backend calls start at least one time-unit (Resolution ticks)
\* apart, and a rate-limit wait is never longer than one time-unit and ends
\* no earlier than one time-unit after the start of every earlier call.
C12_Sequential ==
    OneAfterTheOther =>
        /\ \A c \in PhysicalCalls, d \in PhysicalCalls : c # d => Apart(c, d)
        /\ \A e \in Did("wait") :
               /\ e.delay > 0
               /\ e.delay <= Resolution
               /\ \A c \in PhysicalCalls \ SameGenerate(e) :
                      e.at + e.delay >= c.at + Resolution

\* worker 2 calls generate after that of worker 1 has returned, half a
\* time-unit after its physical call started, and waits for the remainder
C12_Witness ==
    /\ OneAfterTheOther
    /\ \E c \in PhysicalCalls, d \in PhysicalCalls, e \in Did("wait") :
           /\ c.w = 1 /\ d.w = 2 /\ e.w = 2
           /\ e.at > c.at
           /\ e.delay < Resolution
           /\ d.at = e.at + e.delay
           /\ d.at = c.at + Resolution

\* C13: in every interleaving of two workers that call generate on
\* different backends, any two physical backend calls, retries included,
\* start at least one time-unit apart.
C13_Stated ==
    \A c \in PhysicalCalls, d \in PhysicalCalls : c # d => Apart(c, d)

\* C17: while a worker sleeps in LLM._infer (backoff or rate-limit wait),
\* every other worker can take the step it is at: enter generate, read the
\* clock and the time stamp, wake up when its own sleep is over, start its
\* physical call and return from it.
C17_NotBlocked ==
    \A w \in Workers, v \in Workers :
        (w # v /\ Blocked(w)) =>
            /\ (v # TurnWorker /\ ~Inside(v) /\ worker[v].gen < MaxGenerate)
                   => ENABLED Generate(v)
            /\ worker[v].pc = "clock" => ENABLED ReadClock(v)
            /\ worker[v].pc = "check" => ENABLED RateCheck(v)
            /\ (Sleeping(v) /\ now >= worker[v].wake) => ENABLED WakeUp(v)
            /\ (worker[v].pc = "loop" /\ worker[v].retries < max_retries)
                   => ENABLED Attempt(v)
            /\ worker[v].pc = "call" => ENABLED Succeed(v)

\* a worker is still asleep in a backoff during which the other worker
\* has entered generate, started its physical call and returned
C17_Witness ==
    \E b \in Did("backoff"), e \in Did("enter"), c \in PhysicalCalls,
       r \in Did("return") :
        /\ worker[b.w].pc = "backoff"
        /\ worker[b.w].wake = b.at + b.delay
        /\ now < worker[b.w].wake
        /\ e.w # b.w /\ c.w = e.w /\ r.w = e.w
        /\ c.gen = e.gen /\ r.gen = e.gen
        /\ b.at <= e.at /\ e.at <= c.at /\ c.at <= r.at
        /\ r.at < b.at + b.delay
        /\ ~Inside(e.w)

(***************************************************************************)
(* Retries of one generate call.                                           *)
(***************************************************************************)
CallsOf(e) == {c \in SameGenerate(e) : c.ev = "call"}

FailuresOf(e) == {b \in SameGenerate(e) : b.ev = "backoff"}

\* the generate call that e belongs to is still running
StillRunning(e) == Inside(e.w) /\ worker[e.w].gen = e.gen

\* the generate call number g of the thread that runs the turns failed
\* with error, and the turn ended with it there and then: the trace has the
\* failure as the answer of the g-th generate call, the end of the turn
\* right after it and nothing of that turn later; the caller of chat has
\* the error as long as no other turn is started
TurnRaised(g, error) ==
    \E i \in 1..Len(trace) :
        /\ trace[i].ev = "gen"
        /\ Cardinality({j \in 1..i : trace[j].ev = "gen"}) = g
        /\ trace[i].response = [type |-> "error", error |-> error]
        /\ i < Len(trace)
        /\ trace[i + 1].ev = "end" /\ trace[i + 1].how = "raised"
        /\ trace[i + 1].error = error /\ trace[i + 1].turn = trace[i].turn
        /\ \A j \in (i + 2)..Len(trace) : trace[j].turn # trace[i].turn
        /\ i + 1 = Len(trace) => (stack = <<>> /\ outcome = Raised(error))

\* C14: a generate call makes at most 5 physical calls; when it returns,
\* the call that succeeded is the last one it made; it raises "Max retries
\* exceeded" only after 5 physical calls that all failed with RetryLater,
\* and once 5 have failed that way it makes no further call and ends with
\* that error, which the turn of the agent ends with as well.
C14_AtMostFive ==
    \A e \in Did("enter") :
        /\ Cardinality(CallsOf(e)) <= 5
        /\ \A c \in CallsOf(e) : c.k \in 0..4
        /\ \A r \in SameGenerate(e) :
               r.ev = "return" =>
                   /\ Cardinality(CallsOf(e)) = r.k + 1
                   /\ Cardinality(FailuresOf(e)) = r.k
                   /\ \A c \in CallsOf(e) : c.at <= r.at
                   /\ ~StillRunning(e)
        /\ \A r \in SameGenerate(e) :
               (r.ev = "raise" /\ r.error = MaxRetriesError) =>
                   /\ Cardinality(CallsOf(e)) = 5
                   /\ Cardinality(FailuresOf(e)) = 5
        /\ Cardinality(FailuresOf(e)) = 5 =>
               /\ StillRunning(e) => worker[e.w].pc \in {"backoff", "loop"}
               /\ ~StillRunning(e) =>
                      /\ \E r \in SameGenerate(e) :
                             r.ev = "raise" /\ r.error = MaxRetriesError
                      /\ e.w = TurnWorker => TurnRaised(e.gen, MaxRetriesError)

\* five physical calls of one generate call have failed with RetryLater
\* and the chat turn has ended with the max-retries error
C14_Witness ==
    /\ outcome = Raised(MaxRetriesError)
    /\ Cardinality(PhysicalCalls) = 5
    /\ Cardinality(Did("backoff")) = 5
    /\ \E r \in Did("raise") : r.error = MaxRetriesError

\* C15: after the failure of attempt k (k = 0, 1, ...) with RetryLater the
\* wrapper sleeps a delay d with 5 * 2^k <= d <= 5 * 2^k + 1 time-units
\* (5, 10, 20, 40 before attempts 2 to 5, plus at most one unit), and the
\* next attempt starts no earlier than d after the failure.
C15_Backoff ==
    \A b \in Did("backoff") :
        /\ b.k \in 0..4
        /\ b.delay >= <<5, 10, 20, 40, 80>>[b.k + 1] * Resolution
        /\ b.delay <= (<<5, 10, 20, 40, 80>>[b.k + 1] + 1) * Resolution
        /\ 5 * (2 ^ b.k) = <<5, 10, 20, 40, 80>>[b.k + 1]
        /\ \A c \in CallsOf(b) : c.k = b.k + 1 => c.at >= b.at + b.delay

\* a generate call reaches its fifth attempt after delays of 5, 11, 20 and
\* 41 time-units
C15_Witness ==
    \E c \in PhysicalCalls :
        /\ c.k = 4
        /\ \E b \in FailuresOf(c) : b.k = 0 /\ b.delay = 5 * Resolution
        /\ \E b \in FailuresOf(c) : b.k = 1 /\ b.delay = 11 * Resolution
        /\ \E b \in FailuresOf(c) : b.k = 2 /\ b.delay = 20 * Resolution
        /\ \E b \in FailuresOf(c) : b.k = 3 /\ b.delay = 41 * Resolution

\* C16: when a physical call fails with anything but RetryLater, generate
\* raises that failure at once: the failed call is the last physical call of
\* the generate call (the only one when it is the first attempt), no backoff
\* or other wait follows it, and the turn of the agent that called generate
\* ends with that failure.
C16_Propagates ==
    \A r \in Did("raise") :
        r.error # MaxRetriesError =>
            /\ ~StillRunning(r)
            /\ Cardinality(CallsOf(r)) = r.k + 1
            /\ \A c \in CallsOf(r) : c.k <= r.k /\ c.at <= r.at
            /\ Cardinality(FailuresOf(r)) = r.k
            /\ \A b \in FailuresOf(r) : b.k < r.k
            /\ \A d \in SameGenerate(r) : d.ev \in {"wait", "wake"} => d.k <= r.k
            /\ \A d \in SameGenerate(r) : d.at <= r.at
            /\ r.w = TurnWorker => TurnRaised(r.gen, r.error)

\* the first physical call of the turn fails to decode the arguments of a
\* tool call, and the turn has ended with that error
C16_Witness ==
    /\ TurnRaised(1, DecodeError)
    /\ outcome = Raised(DecodeError)
    /\ Cardinality(PhysicalCalls) = 1
    /\ Did("backoff") = {}
    /\ \E r \in Did("raise") : r.error = DecodeError /\ r.k = 0

(***************************************************************************)
(* Decoding the arguments of a tool call.                                  *)
(***************************************************************************)
KeysOf(items) == {items[n].key : n \in 1..Len(items)}

ValueOf(items, key) == items[CHOOSE n \in 1..Len(items) : items[n].key = key].value

RECURSIVE SameValue(_, _)
\* Python ==: dicts are equal when they map the same keys to equal values,
\* whatever the order of their items
SameValue(v, w) ==
    IF v.t = "dict" /\ w.t = "dict"
    THEN /\ KeysOf(v.items) = KeysOf(w.items)
         /\ \A k \in KeysOf(v.items) :
                SameValue(ValueOf(v.items, k), ValueOf(w.items, k))
    ELSE v = w

\* C27: for every dict m of the bounded set (up to two string keys; ints,
\* strings, None and nested dicts as values), a ToolCall made from
\* json.dumps(m), with default or compact separators, has args equal to m
\* and json.dumps(args) decodes to m again; a ToolCall is never made from a
\* text that is not JSON (a serialization cut short, a missing quote, a
\* trailing comma, trailing characters, ...): the construction fails with
\* "Invalid JSON string".
C27_RoundTrip ==
    \A n \in 1..Len(decoded) :
        LET e == decoded[n]
        IN  /\ e.kind \in {"dumps", "compact"} =>
                   /\ e.made
                   /\ SameValue(DictV(e.args), DictV(e.items))
                   /\ Loads(e.again).ok
                   /\ SameValue(Loads(e.again).v, DictV(e.items))
            /\ ~e.json => (~e.made /\ e.error = DecodeError)

\* a dict of two keys, one of them with a dict as value, sent in compact
\* form, has made it through
C27_Witness ==
    \E n \in 1..Len(decoded) :
        /\ decoded[n].kind = "compact"
        /\ decoded[n].made
        /\ decoded[n].items = <<Item("b", DictV(<<Item("x", IntV(7))>>)),
                                Item("a", IntV(0 - 3))>>
        /\ decoded[n].args = decoded[n].items

(***************************************************************************)
(* Sub-agents and the tool registry.                                       *)
(***************************************************************************)
\* C26: after any sequence of add_tool, add_function_as_tool, add_sub_agent,
\* link_agents and remover calls, every wrapper in the sub_agents list of an
\* agent is the tool its tool_map holds under the name of the wrapper.
C26_Stated ==
    \A a \in Team : \A i \in 1..Len(sub_agents[a]) :
        /\ Has(tool_map[a], sub_agents[a][i].name)
        /\ Lookup(tool_map[a], sub_agents[a][i].name) = sub_agents[a][i]

(***************************************************************************)
(* The aggregated tool-result message.                                     *)
(***************************************************************************)
\* the message lists turns work on: the histories and the copies of the
\* structured answers under way
MessageLists ==
    {history[a] : a \in DOMAIN history}
        \cup {stack[d].local : d \in 1..Len(stack)}

IsResults(msg) == msg.type = "tool" /\ msg.role = "user"

IsCalls(msg) == msg.type = "tool" /\ msg.role = "model"

\* msg holds one result per call of calls, in the order of the calls, each
\* under the id and the name of its call
Answers(msg, calls) ==
    /\ Len(msg.tool_results) = Len(calls.tool_calls)
    /\ \A k \in 1..Len(calls.tool_calls) :
           /\ msg.tool_results[k].id = calls.tool_calls[k].id
           /\ msg.tool_results[k].name = calls.tool_calls[k].name

\* C24: every aggregated tool-result message holds exactly one result per
\* call of the tool-call message it answers, in the same order, each with
\* the id and the name of the call of the response, whatever call the
\* pre-hooks made of it; no two result messages answer the same calls.
C24_OneResultPerCall ==
    \A L \in MessageLists :
        /\ \A i \in 1..Len(L) :
               IsResults(L[i]) =>
                   \E j \in 1..(i - 1) : IsCalls(L[j]) /\ Answers(L[i], L[j])
        /\ \A i, j \in 1..Len(L) :
               (IsResults(L[i]) /\ IsResults(L[j]) /\ i # j) =>
                   \A k \in 1..Len(L[i].tool_results), l \in 1..Len(L[j].tool_results) :
                       L[i].tool_results[k].id # L[j].tool_results[l].id

\* a recorded message of several results, one of them of a call that a
\* pre-hook replaced by a call with another id
C24_Witness ==
    \E a \in DOMAIN history : \E i \in 1..Len(history[a]) :
        /\ IsResults(history[a][i])
        /\ Len(history[a][i].tool_results) > 1
        /\ \E n \in 1..Len(trace), k \in 1..Len(history[a][i].tool_results) :
               /\ trace[n].ev = "exec"
               /\ trace[n].cur.id # trace[n].call.id
               /\ trace[n].call.id = history[a][i].tool_results[k].id

(***************************************************************************)
(* Linked agents: the interaction tool called with an unknown user.        *)
(***************************************************************************)
\* the logged execution e ran the callable of link_agents for a user that
\* is not in the roster
UnknownUser(e) ==
    /\ e.ev = "exec"
    /\ Has(e.map, e.cur.name)
    /\ Lookup(e.map, e.cur.name).fn = "interact"
    /\ Lookup(e.map, e.cur.name).partnerMap = PartnerMap(Partners, "")
    /\ DOMAIN e.cur.args = {"user", "request"}
    /\ \A i \in 1..Len(Partners) : e.cur.args.user # StrV(Partners[i])

\* the failure names the user and lists the roster
ListsRoster(e) ==
    /\ ~e.result.success
    /\ e.result.error = StrV("'User " \o Quote \o e.cur.args.user.s \o Quote
                             \o " not found, available users: Helper, Worker'")

\* the result of e is the last one gathered for the response under way or
\* the last one of the result message just recorded by the actor
Recorded(e, stk, hist) ==
    LET filed == ToolResult(e.call.id, e.call.name, e.result)
        results == stk[Len(stk)].results
        last == hist[e.agent][Len(hist[e.agent])]
    IN  IF results # <<>>
        THEN results[Len(results)] = filed
        ELSE /\ IsResults(last)
             /\ last.tool_results[Len(last.tool_results)] = filed

\* C21: a call of the multi-partner tool of link_agents for a user that is
\* not in the roster fails with a message listing the valid names, the
\* failure is recorded as an unsuccessful tool result in the turn of the
\* actor, no chat turn of a partner is started, no callback is invoked and
\* the history of every partner is left as it was.
C21_UnknownUser ==
    [][\A n \in (Len(trace) + 1)..Len(trace') :
          UnknownUser(trace'[n]) =>
              /\ ListsRoster(trace'[n])
              /\ stack' # <<>>
              /\ Recorded(trace'[n], stack', history')
              /\ trace'[n - 1].ev \in {"gen", "exec"}
              /\ trace'[n - 1].turn = trace'[n].turn
              /\ numTurns' = numTurns
              /\ heard' = heard
              /\ \A i \in 1..Len(Partners) :
                     history'[Partners[i]] = history[Partners[i]]]_vars

\* the tool was called for an unknown user and then for Worker, whose chat
\* ran with both callbacks
C21_Witness ==
    /\ \E n \in 1..Len(trace) : UnknownUser(trace[n])
    /\ history["Worker"] # <<>>
    /\ \E k \in 1..Len(heard) : heard[k].when = "callback" /\ heard[k].from = "Worker"

(***************************************************************************)
(* Poking.                                                                 *)
(***************************************************************************)
\* C22: a poke of an agent whose poking is switched off fails at once with
\* the error of poke: the step appends no message to any history, issues
\* no backend call, starts no turn, and nothing else happens in it.
C22_PokeRefused ==
    [][\A n \in (Len(trace) + 1)..Len(trace') :
          (trace'[n].ev = "poke" /\ ~allow_poking[trace'[n].agent]) =>
              /\ n = Len(trace')
              /\ outcome' = Raised("Poking is not allowed for " \o trace'[n].agent)
              /\ history' = history
              /\ numGen' = numGen
              /\ numTurns' = numTurns
              /\ stack' = <<>>]_vars

\* a poke was refused after an earlier call left messages in the history
C22_Witness ==
    /\ outcome = Raised("Poking is not allowed for A")
    /\ trace[Len(trace)].ev = "poke"
    /\ ~allow_poking["A"]
    /\ history["A"] # <<>>

Extends(t, s) == Len(s) <= Len(t) /\ SubSeq(t, 1, Len(s)) = s

\* C25: histories are append-only: every step of a chat, poke or
\* structuredAnswer call, whether the call returns or fails, leaves the
\* history of every agent as it was or appends to it; only clear_history
\* shortens a history.
C25_AppendOnly ==
    [][\A a \in DOMAIN history :
          \/ Extends(history'[a], history[a])
          \/ /\ trace' = Append(trace, [ev |-> "clear", agent |-> a])
             /\ history'[a] = <<>>]_vars

\* a chat failed after it had recorded a response and its results, in a
\* session whose first call left messages behind
C25_Witness ==
    /\ outcome.status = "raised"
    /\ numTop = MaxCalls
    /\ trace[Len(trace)].ev = "end"
    /\ Len(history["A"]) > 3
    /\ IsResults(history["A"][Len(history["A"])])

(***************************************************************************)
(* What a chat returns.                                                    *)
(***************************************************************************)
\* the last generate call of turn t, as a position of the trace
LastGenOf(t) == CHOOSE g \in GensOf(t) : \A j \in GensOf(t) : j <= g

EndIndex(t) == CHOOSE i \in Events : trace[i].ev = "end" /\ trace[i].turn = t

\* since turn t ended, its agent has neither begun another chat nor had its
\* history cleared, and it has no unfinished turn
Undisturbed(t) ==
    LET a == StartOf(t).agent
    IN  /\ \A k \in Events :
               k > EndIndex(t) =>
                   /\ ~(trace[k].ev = "clear" /\ trace[k].agent = a)
                   /\ ~(trace[k].ev = "start" /\ trace[k].agent = a
                           /\ trace[k].kind = "chat")
        /\ \A d \in 1..Len(stack) : stack[d].agent # a

\* C28: whenever a chat returns normally, the last generate call of its
\* turn was answered with plain text, the returned string is that text, the
\* turn makes no backend call and runs no tool after that response, and the
\* response is the last entry of the history of the agent (until the agent
\* is called again or its history is cleared).
C28_ReturnsLastText ==
    \A t \in Turns :
        (StartOf(t).kind = "chat" /\ Ended(t) /\ EndOf(t).how = "returned") =>
            /\ GensOf(t) # {}
            /\ LastGenOf(t) < EndIndex(t)
            /\ trace[LastGenOf(t)].response.type = "text"
            /\ trace[LastGenOf(t)].response.role = "model"
            /\ EndOf(t).value = StrV(trace[LastGenOf(t)].response.text)
            /\ \A k \in Events :
                   (k > LastGenOf(t) /\ trace[k].ev \in {"gen", "exec"}) =>
                       trace[k].turn # t
            /\ Undisturbed(t) =>
                   Last(history[StartOf(t).agent]) = trace[LastGenOf(t)].response

\* the second call of a session, a chat that ran a tool and then returned
\* the text of the backend
C28_Witness ==
    /\ stack = <<>>
    /\ numTop = MaxCalls
    /\ outcome = Returned(StrV("finished"))
    /\ \E t \in Turns :
           /\ StartOf(t).kind = "chat"
           /\ StartOf(t).depth = 1
           /\ Ended(t) /\ EndIndex(t) = Len(trace)
           /\ Undisturbed(t)
           /\ \E k \in Events : trace[k].ev = "exec" /\ trace[k].turn = t

(***************************************************************************)
(* The synthetic tools.                                                    *)
(***************************************************************************)
Offered(e, name) == \E k \in 1..Len(e.tools) : e.tools[k] = name

Synthetic == {"end_tool_mode", "set_output"}

\* the names of the list without the synthetic ones
Registered(names) ==
    LET Test(name) == name \notin Synthetic IN SelectSeq(names, Test)

\* C29: the synthetic tools are offered for one backend call only.  The
\* registered tool map of an agent never holds end_tool_mode or set_output;
\* the map a chat turn carries from one backend call to the next is the
\* registered map, and every chat starts with it; end_tool_mode is offered
\* only to a backend call in FORCE mode of an agent with the escape
\* enabled, set_output only inside a structured answer, and next to them a
\* chat offers exactly the registered tools.
C29_SyntheticTools ==
    /\ \A a \in DOMAIN tool_map : \A name \in Synthetic : ~Has(tool_map[a], name)
    /\ \A d \in 1..Len(stack) :
           stack[d].kind = "chat" => stack[d].tool_map = tool_map[stack[d].agent]
    /\ \A i \in Events :
           /\ (trace[i].ev = "start" /\ trace[i].kind = "chat") =>
                  trace[i].tools = Keys(tool_map[trace[i].agent])
           /\ trace[i].ev = "gen" =>
                  /\ Offered(trace[i], "end_tool_mode") =>
                         trace[i].mode = FORCE /\ end_tool_mode[trace[i].agent]
                  /\ Offered(trace[i], "set_output") =>
                         StartOf(trace[i].turn).kind = "structured"
                  /\ StartOf(trace[i].turn).kind = "chat" =>
                         Registered(trace[i].tools) = Keys(tool_map[trace[i].agent])

\* a forced chat was offered end_tool_mode, took it and went on without it,
\* and a structured answer was offered set_output
C29_Witness ==
    /\ stack = <<>>
    /\ \E i, j, k \in Events :
           /\ i < j /\ j < k
           /\ trace[i].ev = "gen" /\ trace[j].ev = "gen" /\ trace[k].ev = "gen"
           /\ trace[i].turn = trace[j].turn
           /\ Offered(trace[i], "end_tool_mode") /\ IsEscape(trace[i].response)
           /\ ~Offered(trace[j], "end_tool_mode")
           /\ Offered(trace[k], "set_output")

(***************************************************************************)
(* The start of a chat turn.                                               *)
(***************************************************************************)
\* the tool mode a chat was asked for: the requested one, else the default
\* of the agent
Wanted(e) ==
    IF e.requested = "default" THEN default_tool_mode[e.agent] ELSE e.requested

FirstGenOf(t) == CHOOSE g \in GensOf(t) : \A j \in GensOf(t) : g <= j

\* C30: every chat starts its turn with the budget max_iterations of the
\* agent and with the requested tool mode, or the default of the agent when
\* none is given, and makes its first backend call with them, whatever
\* earlier turns used up and whatever mode they ended in.
C30_FreshStart ==
    \A t \in Turns :
        StartOf(t).kind = "chat" =>
            /\ StartOf(t).iterations = max_iterations[StartOf(t).agent]
            /\ StartOf(t).tool_mode = Wanted(StartOf(t))
            /\ GensOf(t) # {} =>
                   /\ trace[FirstGenOf(t)].iterations = max_iterations[StartOf(t).agent]
                   /\ trace[FirstGenOf(t)].mode = Wanted(StartOf(t))
                   /\ trace[FirstGenOf(t)].tool_mode = Wanted(StartOf(t))

\* a forced chat was demoted to AUTO and used up an iteration, and the
\* forced chat after it made its first backend call
C30_Witness ==
    \E t, u \in Turns :
        /\ t < u
        /\ StartOf(t).agent = StartOf(u).agent
        /\ StartOf(t).kind = "chat" /\ StartOf(u).kind = "chat"
        /\ StartOf(t).requested = FORCE /\ StartOf(u).requested = FORCE
        /\ \E i \in GensOf(t) :
               trace[i].mode = AUTO
                   /\ trace[i].iterations < max_iterations[StartOf(t).agent]
        /\ GensOf(u) # {}

(***************************************************************************)
(* The tool mode over one turn.                                            *)
(***************************************************************************)
\* a generate call of turn t before position i was answered with a call of
\* the escape tool
EscapedBefore(t, i) == \E j \in EscapeGensOf(t) : j < i

\* C31: within one turn the tool mode only demotes: after a generate call
\* issued with AUTO no later generate call of the turn is issued with FORCE;
\* and on a backend with the escape convention a turn started in FORCE
\* issues every generate call with FORCE until the escape tool is emitted.
C31_OnlyDemotes ==
    \A t \in Turns :
        /\ \A i, j \in GensOf(t) :
               (i < j /\ trace[i].tool_mode = AUTO) => trace[j].tool_mode # FORCE
        /\ (StartOf(t).tool_mode = FORCE /\ end_tool_mode[StartOf(t).agent]) =>
               \A i \in GensOf(t) :
                   ~EscapedBefore(t, i) => trace[i].tool_mode = FORCE

\* a forced turn on a backend with the escape convention: a forced call that
\* ran tools, a forced call answered with the escape tool, then a call in AUTO
C31_Witness ==
    \E t \in Turns : \E i, j, k \in GensOf(t) :
        /\ i < j /\ j < k
        /\ end_tool_mode[StartOf(t).agent]
        /\ trace[i].tool_mode = FORCE /\ ~IsEscape(trace[i].response)
        /\ trace[j].tool_mode = FORCE /\ IsEscape(trace[j].response)
        /\ trace[k].tool_mode = AUTO

(***************************************************************************)
(* Linked agents: addressing the partners.                                 *)
(***************************************************************************)
\* the interaction tools registered with the agents
InteractTools ==
    UNION {{tool_map[a][k] : k \in {j \in 1..Len(tool_map[a]) :
                                       IsInteract(tool_map[a][j])}} :
           a \in DOMAIN tool_map}

\* every partner that was passed to link_agents is the one its roster name
\* is mapped to
C32_Addressable ==
    \A tool \in InteractTools : \A n \in 1..Len(tool.partners) :
        LET user == UserKey(tool.partners, tool.anonymizePrefix, n)
        IN  /\ KnownUser(tool.partnerMap, user)
            /\ PartnerOf(tool.partnerMap, user) = tool.partners[n]

\* the logged execution at position n ran an interaction tool for a user of
\* its roster
Addressing(n) ==
    /\ trace[n].ev = "exec"
    /\ Has(trace[n].map, trace[n].cur.name)
    /\ IsInteract(Lookup(trace[n].map, trace[n].cur.name))
    /\ DOMAIN trace[n].cur.args = Parameters(Lookup(trace[n].map, trace[n].cur.name))
    /\ KnownUser(Lookup(trace[n].map, trace[n].cur.name).partnerMap,
                 Addressed(Lookup(trace[n].map, trace[n].cur.name), trace[n].cur.args))

\* the callback invocations made when the log held n events
CallbacksAt(n) ==
    LET Test(h) == h.when = "callback" /\ h.at = n IN SelectSeq(heard, Test)

\* a call of the interaction tool for a user of the roster runs one chat
\* turn, of the partner the user is mapped to, on the request; the callback
\* is invoked once before the turn and, when the turn returns, once after
\* it; the tool returns the reply prefixed by the addressed name, or fails
\* as the turn failed
C32_Delivers ==
    \A n \in Events :
        Addressing(n) =>
            LET e == trace[n]
                tool == Lookup(e.map, e.cur.name)
                user == Addressed(tool, e.cur.args)
                partner == PartnerOf(tool.partnerMap, user)
                done == trace[n - 1]
                first == StartIndex(done.turn)
            IN  /\ done.ev = "end" /\ done.turn # e.turn
                /\ trace[first].agent = partner
                /\ trace[first].kind = "chat"
                /\ trace[first].input = e.cur.args.request.s
                /\ \A k \in first..(n - 1) : trace[k].turn = done.turn
                /\ trace[first - 1].ev \in {"gen", "exec"}
                /\ trace[first - 1].turn = e.turn
                /\ CallbacksAt(first - 1) =
                       << [when |-> "callback", from |-> agent_name(e.agent),
                           to |-> agent_name(partner), id |-> 0,
                           text |-> e.cur.args.request, at |-> first - 1] >>
                /\ IF done.how = "returned"
                   THEN /\ e.raw = Succeeded(StrV(user \o ": " \o done.value.s))
                        /\ CallbacksAt(n - 1) =
                               << [when |-> "callback", from |-> agent_name(partner),
                                   to |-> agent_name(e.agent), id |-> 0,
                                   text |-> done.value, at |-> n - 1] >>
                   ELSE /\ e.raw = Failed(done.error)
                        /\ CallbacksAt(n - 1) = <<>>

\* the history of a partner holds one input per turn the partner ran, and
\* every such turn was started for a call addressed to it
C32_OthersUntouched ==
    \A p \in DOMAIN history \ {"A"} :
        LET IsInput(msg) == msg.type = "text" /\ msg.role = "user"
            turns == {t \in Turns : StartOf(t).agent = p}
        IN  /\ Len(SelectSeq(history[p], IsInput)) = Cardinality(turns)
            /\ \A t \in turns :
                   /\ StartOf(t).depth = 2
                   /\ StartOf(t).input = "q"

\* C32: the tool registered by link_agents delivers the request as one chat
\* turn to exactly the partner that was addressed (the only partner when
\* the roster has one), every partner passed to link_agents is addressable
\* by its roster name, no other partner's history changes, the callback is
\* invoked once before and once after that partner's turn, and the tool
\* returns the partner's reply prefixed by the addressed name.
C32_Stated == C32_Addressable /\ C32_Delivers /\ C32_OthersUntouched

(***************************************************************************)
(* C33                                                                     *)
(***************************************************************************)
\* a tool call of agent a is executing: a turn of a is between the append
\* of the response and the append of its results
Executing(a) == \E d \in 1..Len(stack) :
                    stack[d].agent = a /\ stack[d].kind = "chat" /\ stack[d].pc = "exec"

\* the tool-call message at i of list L is directly followed by the
\* message of its results
AnsweredNext(L, i) ==
    /\ i < Len(L)
    /\ IsResults(L[i + 1])
    /\ Answers(L[i + 1], L[i])

\* C33: in the history of every agent, whenever no tool call of the agent
\* is executing, every tool-call message of the model is directly followed
\* by the user message that holds its results, also when A delegates to
\* Helper and Helper delegates back to A.
C33_Stated ==
    \A a \in DOMAIN history :
        ~Executing(a) =>
            \A i \in 1..Len(history[a]) :
                IsCalls(history[a][i]) => AnsweredNext(history[a], i)

(***************************************************************************)
(* C34                                                                     *)
(***************************************************************************)
\* the generate calls of turn t that came after a call answered with the
\* escape tool
AfterEscape(t) == {i \in GensOf(t) : EscapedBefore(t, i)}

\* C34: when the backend calls end_tool_mode only where that tool was
\* offered to it, a turn is retried for the escape at most once: no generate
\* call after the retry is offered the escape tool, and the turn makes at
\* most max_iterations + 1 generate calls.
C34_EscapeOnce ==
    \A t \in Turns :
        EscapeOffered(t) =>
            /\ Cardinality(EscapeGensOf(t)) <= 1
            /\ \A i \in AfterEscape(t) : ~Offered(trace[i], "end_tool_mode")
            /\ Cardinality(GensOf(t)) <= StartOf(t).iterations + 1

\* a turn with the largest budget that was retried for the escape and then
\* used up its budget: max_iterations + 1 generate calls
C34_Witness ==
    \E t \in Turns :
        /\ EscapeOffered(t)
        /\ StartOf(t).iterations = MaxIter
        /\ Cardinality(EscapeGensOf(t)) = 1
        /\ Cardinality(GensOf(t)) = MaxIter + 1
        /\ Ended(t)

(***************************************************************************)
(* C35                                                                     *)
(***************************************************************************)
\* a structuredAnswer call is under way in the stack stk
Structuring(stk) == stk # <<>> /\ stk[1].kind = "structured"

\* C35: structuredAnswer leaves the history of the agent as it was: no step
\* of a structured answer, from its start to its return or its failure,
\* changes any history, so neither the user input nor the set_output call
\* nor its result is recorded.
C35_HistoryKept ==
    [][(Structuring(stack) \/ Structuring(stack')) => history' = history]_vars

\* after a chat, a structured answer whose set_output call was executed
\* has ended, and the history still ends with the reply of the chat
C35_Witness ==
    \E t \in StructuredTurns :
        /\ Ended(t)
        /\ ExecutedGens(t) # {}
        /\ history[StartOf(t).agent] # <<>>
        /\ Last(history[StartOf(t).agent]).role = "model"
        /\ Last(history[StartOf(t).agent]).type = "text"

(***************************************************************************)
(* C36                                                                     *)
(***************************************************************************)
\* the step invokes the remover of registration r
Removing(r) ==
    /\ r <= Len(registrations')
    /\ registrations'[r].calls = registrations[r].calls + 1

\* C36: the remover that add_tool or add_function_as_tool returned removes
\* only the tool of its registration: every other tool of the agent stays
\* registered, also a tool registered under the same name afterwards, and a
\* second invocation of the remover changes nothing.
C36_Stated ==
    [][\A r \in 1..Len(registrations) :
           Removing(r) =>
               LET reg == registrations[r]
                   before == tool_map[reg.agent]
                   after == tool_map'[reg.agent]
               IN  /\ \A k \in 1..Len(before) :
                          before[k] # reg.tool =>
                              /\ Has(after, before[k].name)
                              /\ Lookup(after, before[k].name) = before[k]
                   /\ \A b \in DOMAIN tool_map : b # reg.agent => tool_map'[b] = tool_map[b]
                   /\ ~Has(after, reg.name) \/ Lookup(after, reg.name) # reg.tool]_vars

(***************************************************************************)
(* C37                                                                     *)
(***************************************************************************)
\* C37: on every delegation graph built with add_sub_agent, cycles
\* included, get_all_subagents comes to an end and returns the agent and
\* every agent reachable from it.
C37_Stated ==
    \A i \in Listings :
        /\ listed[i].raised = ""
        /\ {b \in Team : Descends(listed[i].before.sub_agents, listed[i].agent, b)}
               \subseteq Range(listed[i].agents)

(***************************************************************************)
(* C38                                                                     *)
(***************************************************************************)
\* C38: a backoff wait is only ever followed by another physical attempt:
\* a generate call that has ended made, after every wait, the attempt the
\* wait was for, and the max-retries error is raised at the time the fifth
\* attempt failed, with no wait in between.
C38_Stated ==
    /\ \A b \in Did("backoff") :
           ~StillRunning(b) => \E c \in CallsOf(b) : c.k = b.k + 1
    /\ \A r \in Did("raise") :
           r.error = MaxRetriesError =>
               \A b \in FailuresOf(r) : b.k = max_retries - 1 => r.at = b.at

(***************************************************************************)
(* C39                                                                     *)
(***************************************************************************)
\* the results of the executed calls as _execute_tool built them, before
\* the post-hooks were applied
RawResults == {trace[i].raw : i \in Execs}

\* C39: every ExecutionResult built at the tool-execution boundary, before
\* any post-hook is applied, has success = true and no error, or
\* success = false, an error string and no output.
C39_OneOfOutputError ==
    \A r \in RawResults :
        \/ r.success /\ r.error = NoneV
        \/ ~r.success /\ r.error.t = "str" /\ r.output = NoneV

\* a call that failed and a call that succeeded and whose result a
\* post-hook then replaced have been executed
C39_Witness ==
    \E i, j \in Execs :
        /\ ~trace[i].raw.success
        /\ trace[i].raw.error.t = "str"
        /\ trace[j].raw.success
        /\ trace[j].raw.output # NoneV
        /\ trace[j].result # trace[j].raw

====
